---- MODULE Spec2Model ----
(***************************************************************************)
(* Multi-tenant gateway: tenant registry and tokens, method authorization, *)
(* tenant RPC handlers, PTY terminal sessions, HTTP session-key scoping.   *)
(*                                                                         *)
(* Strings that the code splits or prefixes on ":" (tokens, session keys)  *)
(* are modelled as the sequence of their ":"-separated segments, so        *)
(* "tenant:a:x" is <<"tenant", "a", "x">>; a prefix test "tenant:X:" is a  *)
(* test on the first two segments of a sequence of at least three.         *)
(***************************************************************************)
EXTENDS Integers, Sequences, FiniteSets, TLC

VARIABLES
    registry,          \* tenants.json: tenantId -> entry | None
    nextSecret,        \* source of fresh random secrets
    issued,            \* tenantId -> plaintext token last returned by create/rotate
    conns,             \* open gateway connections: connId -> client | None
    terminalSessions,  \* terminal.ts map: terminalId -> session | None
    pty,               \* the PTY handles: terminalId -> handle state
    now,               \* Date.now()
    effects,           \* registry/usage/backup operations performed by the last call
    last,              \* the last call and its response
    authIn,            \* inputs of authorizeGatewayMethod (method, client)
    keyIn,             \* inputs of scopeSessionKeyToTenant / HTTP request
    runner,            \* agent runner invocations of the last HTTP request
    usageFile,         \* usage/current.json of each tenant: snapshot | Nil (no file)
    historyFiles,      \* usage/{period}.json of each tenant: snapshot | Nil
    rateLimitFile,     \* usage/rate-limits.json of each tenant: state | Nil
    quotas,            \* the TenantQuotas the callers pass
    period,            \* getCurrentPeriod(): the calendar month of the clock
    calls,             \* ledger calls in flight: their position and locals
    nCalls,            \* number of ledger calls made so far
    allowedLog,        \* history: clock readings of the requests that were allowed
    applied,           \* history: sums of the updates whose calls have returned
    services,          \* the tenant CronService instances constructed so far
    tenantServices,    \* the supervisor's map: tenantId -> index in services | 0
    globalService,     \* the global CronService
    cronEnabled,       \* the supervisor's cronEnabled parameter
    jobStore,          \* what is at each tenant's cron store path
    cronCalls,         \* supervisor calls in flight
    controlPlaneToken, \* config.gateway.controlPlaneToken
    pairing,           \* device pairing stores: base directory -> pending requests
    overlayFile,       \* the tenants' config overlay files
    fileSystem,        \* the files of the host: the state directories and what is around
    s3Objects,         \* the backup bucket: key -> archive | Nil
    cronJobs           \* the jobs in each cron store file: tenant (None: the global store) -> job ids

ledgerVars == <<usageFile, historyFiles, rateLimitFile, quotas, period, calls,
                nCalls, allowedLog, applied>>
cronVars == <<services, tenantServices, globalService, cronEnabled, jobStore, cronCalls>>
hostVars == <<controlPlaneToken, pairing, overlayFile, fileSystem, s3Objects, cronJobs>>
storeVars == <<ledgerVars, cronVars, hostVars>>

vars == <<registry, nextSecret, issued, conns, terminalSessions, pty,
          now, effects, last, authIn, keyIn, runner, storeVars>>

regVars  == <<registry, nextSecret, issued>>
termVars == <<terminalSessions, pty>>
pureVars == <<authIn, keyIn, runner>>

----------------------------------------------------------------------------
(* Bounds *)
MaxSecrets   == 3
MaxTime      == 1
MaxWrites    == 1
MaxKeyLen    == 3
MaxClock     == 7
MaxCalls     == 3
MaxLedgerClock == 61
MaxServices  == 3
MaxTokenLen  == 2
MaxEntries   == 2

None == "<none>"          \* null / undefined where a string is expected
Nil  == [nil |-> TRUE]     \* null / undefined where an object is expected

Tenants   == {"a", "b"}
ConnIds   == {"c1", "c2", "c3", "c4"}
\* the terminal ids randomUUID() may return
TerminalIds == {"t1", "t2"}
\* a tenant id parameter; None: missing
TenantParams == Tenants \cup {None}
\* params.terminalId; None: missing
TerminalParams == TerminalIds \cup {None}

----------------------------------------------------------------------------
(* Tenant tokens: src/tenants/types.ts, src/tenants/registry.ts *)

\* isValidTenantId: ^[a-z0-9][a-z0-9_-]{0,31}$ over the ids the model uses
ValidTenantIds == Tenants \cup {"zz"}
isValidTenantId(id) == id \in ValidTenantIds

\* buildTenantToken: `tenant:${tenantId}:${secret}`
buildTenantToken(tenantId, secret) == <<"tenant", tenantId>> \o secret

\* parseTenantToken: null unless "tenant:" prefix, >= 3 parts, non-empty id and secret
parseTenantToken(token) ==
    IF ~(Len(token) >= 2 /\ token[1] = "tenant") THEN Nil
    ELSE IF Len(token) < 3 THEN Nil
    ELSE LET tenantId == token[2]
             secret   == SubSeq(token, 3, Len(token))
         IN IF tenantId = "" \/ secret = <<"">> THEN Nil
            ELSE [tenantId |-> tenantId, secret |-> secret]

\* generateToken: the n-th fresh 32-byte random secret (base64url, no ":")
generateToken(n) == <<ToString(n)>>

\* hashToken: SHA-256 hex digest, collision-free on the secrets of the model
hashToken(secret) == [sha256 |-> secret]

\* safeEqualHash: equal length and timingSafeEqual
safeEqualHash(x, y) == x = y

Entry(hash, disabled) == [tokenHash |-> hash, disabled |-> disabled, lastSeenAt |-> -1]

----------------------------------------------------------------------------
(* Registry operations: src/tenants/registry.ts.  Each loads tenants.json,  *)
(* mutates and saves synchronously, so each is one atomic step on registry. *)

\* createTenant throws on an invalid id or an existing tenant
createTenantThrows(reg, tenantId) == ~isValidTenantId(tenantId) \/ reg[tenantId] # Nil

createTenant(reg, tenantId, n) ==
    [reg EXCEPT ![tenantId] = Entry(hashToken(generateToken(n)), FALSE)]

\* removeTenant / rotateTenantToken / updateTenant throw "Tenant not found"
tenantMissing(reg, tenantId) == tenantId \notin DOMAIN reg \/ reg[tenantId] = Nil

removeTenant(reg, tenantId) == [reg EXCEPT ![tenantId] = Nil]

rotateTenantToken(reg, tenantId, n) ==
    [reg EXCEPT ![tenantId].tokenHash = hashToken(generateToken(n))]

\* updateTenant: entry.disabled = updates.disabled || undefined, when given
updateTenant(reg, tenantId, disabled) ==
    IF disabled = "undefined" THEN reg
    ELSE [reg EXCEPT ![tenantId].disabled = (disabled = "true")]

getTenant(reg, tenantId) == IF tenantId \in DOMAIN reg THEN reg[tenantId] ELSE Nil

\* validateTenantToken: the tenant id of the returned context, or None
validateTenantTokenIgnoreDisabled(reg, token) ==
    LET parsed == parseTenantToken(token)
    IN IF parsed = Nil THEN None
       ELSE IF tenantMissing(reg, parsed.tenantId) THEN None
       ELSE IF ~safeEqualHash(hashToken(parsed.secret), reg[parsed.tenantId].tokenHash) THEN None
       ELSE parsed.tenantId
validateTenantToken(reg, token) ==
    LET parsed == parseTenantToken(token)
    IN IF parsed = Nil THEN None
       ELSE IF tenantMissing(reg, parsed.tenantId) THEN None
       ELSE IF reg[parsed.tenantId].disabled THEN None
       ELSE IF ~safeEqualHash(hashToken(parsed.secret), reg[parsed.tenantId].tokenHash) THEN None
       ELSE parsed.tenantId

\* tokens presented to validateTenantToken
TokenInputs ==
    { buildTenantToken(t, generateToken(n)) : t \in ValidTenantIds, n \in 1..MaxSecrets }
    \cup { <<"tenant">>, <<"tenant", "a">>, <<"bearer", "a", "1">>,
           <<"tenant", "", "1">>, <<"tenant", "a", "">>, <<"tenant", "a", "1", "x">> }

NoEffects == {}

\* createTenant called directly (CLI `tenants create`, control plane POST)
RegCreate(t) ==
    /\ nextSecret <= MaxSecrets
    /\ IF createTenantThrows(registry, t)
       THEN /\ UNCHANGED regVars
            /\ last' = [op |-> "create", tenantId |-> t, ok |-> FALSE]
       ELSE /\ registry' = createTenant(registry, t, nextSecret)
            /\ issued' = [issued EXCEPT ![t] = buildTenantToken(t, generateToken(nextSecret))]
            /\ nextSecret' = nextSecret + 1
            /\ last' = [op |-> "create", tenantId |-> t, ok |-> TRUE]
    /\ effects' = NoEffects
    /\ UNCHANGED <<conns, storeVars, termVars, now, pureVars>>

RegRemove(t) ==
    /\ IF tenantMissing(registry, t)
       THEN /\ UNCHANGED registry
            /\ last' = [op |-> "remove", tenantId |-> t, ok |-> FALSE]
       ELSE /\ registry' = removeTenant(registry, t)
            /\ last' = [op |-> "remove", tenantId |-> t, ok |-> TRUE]
    /\ effects' = NoEffects
    /\ UNCHANGED <<nextSecret, issued, conns, storeVars, termVars, now, pureVars>>

RegRotate(t) ==
    /\ nextSecret <= MaxSecrets
    /\ IF tenantMissing(registry, t)
       THEN /\ UNCHANGED regVars
            /\ last' = [op |-> "rotate", tenantId |-> t, ok |-> FALSE]
       ELSE /\ registry' = rotateTenantToken(registry, t, nextSecret)
            /\ issued' = [issued EXCEPT ![t] = buildTenantToken(t, generateToken(nextSecret))]
            /\ nextSecret' = nextSecret + 1
            /\ last' = [op |-> "rotate", tenantId |-> t, ok |-> TRUE]
    /\ effects' = NoEffects
    /\ UNCHANGED <<conns, storeVars, termVars, now, pureVars>>

RegUpdate(t, disabled) ==
    /\ IF tenantMissing(registry, t)
       THEN /\ UNCHANGED registry
            /\ last' = [op |-> "update", tenantId |-> t, ok |-> FALSE]
       ELSE /\ registry' = updateTenant(registry, t, disabled)
            /\ last' = [op |-> "update", tenantId |-> t, ok |-> TRUE]
    /\ effects' = NoEffects
    /\ UNCHANGED <<nextSecret, issued, conns, storeVars, termVars, now, pureVars>>

\* validateTenantToken: on success also stamps lastSeenAt and saves
Validate(token) ==
    LET ctx == validateTenantToken(registry, token)
    IN /\ registry' = IF ctx = None THEN registry
                      ELSE [registry EXCEPT ![ctx].lastSeenAt = now]
       /\ last' = [op |-> "validate", token |-> token, context |-> ctx]
       /\ effects' = NoEffects
       /\ UNCHANGED <<nextSecret, issued, conns, storeVars, termVars, now, pureVars>>

----------------------------------------------------------------------------
(* Gateway clients: src/gateway/server-methods/types.ts GatewayClient *)

ADMIN_SCOPE     == "operator.admin"
READ_SCOPE      == "operator.read"
WRITE_SCOPE     == "operator.write"
APPROVALS_SCOPE == "operator.approvals"
PAIRING_SCOPE   == "operator.pairing"

Client(connId, tenantId, role, scopes) ==
    [connId |-> connId, tenantId |-> tenantId, hasConnect |-> TRUE,
     role |-> role, scopes |-> scopes]

\* getTenantId: opts.client?.tenantId ?? null
getTenantId(client) == IF client = Nil THEN None ELSE client.tenantId

\* hasAdminScope: (opts.client?.connect?.scopes ?? []).includes("operator.admin")
hasAdminScope(client) ==
    IF client = Nil \/ ~client.hasConnect THEN FALSE ELSE ADMIN_SCOPE \in client.scopes

\* canAccessTenant: admin scope, or the client's own tenant
canAccessTenantAlways(client, tenantId) == TRUE
canAccessTenant(client, tenantId) ==
    IF hasAdminScope(client) THEN TRUE ELSE getTenantId(client) = tenantId

\* Date.now() advances
Tick ==
    /\ now < MaxTime
    /\ now' = now + 1
    /\ last' = [op |-> "tick"]
    /\ effects' = NoEffects
    /\ UNCHANGED <<regVars, conns, storeVars, termVars, pureVars>>

\* Date.now() advances by d, up to the given reading of the clock
Wait(d, limit) ==
    /\ now + d <= limit
    /\ now' = now + d
    /\ last' = [op |-> "wait"]
    /\ effects' = NoEffects
    /\ UNCHANGED <<regVars, conns, storeVars, termVars, pureVars>>

----------------------------------------------------------------------------
(* PTY terminal sessions: src/gateway/server-methods/terminal.ts *)

INVALID_REQUEST == "INVALID_REQUEST"
UNAVAILABLE     == "UNAVAILABLE"
UNAUTHORIZED    == "UNAUTHORIZED"
NOT_FOUND       == "NOT_FOUND"
OK              == "OK"

Max(x, y) == IF x >= y THEN x ELSE y
Min(x, y) == IF x <= y THEN x ELSE y

\* a parameter that is not a number is written -1
clampCols(n, dflt) == IF n = -1 THEN dflt ELSE Max(10, Min(500, n))
clampRows(n, dflt) == IF n = -1 THEN dflt ELSE Max(5, Min(200, n))

\* (SessionOfNobody: a session stored without its tenant)
SessionOfNobody(id, tenantId, connId, t) ==
    [terminalId |-> id, tenantId |-> None, connId |-> connId,
     createdAt |-> t, lastActivityAt |-> t]
Session(id, tenantId, connId, t) ==
    [terminalId |-> id, tenantId |-> tenantId, connId |-> connId,
     createdAt |-> t, lastActivityAt |-> t]

Handle(cols, rows) == [state |-> "running", writes |-> 0, cols |-> cols, rows |-> rows]

\* terminalSessions.get(params.terminalId); 0 stands for a missing terminalId
\* a process that has exited: nothing of the handle is left to observe
Exited == [state |-> "exited", writes |-> 0, cols |-> 0, rows |-> 0]

sessionOf(id) == IF id \in TerminalIds THEN terminalSessions[id] ELSE Nil

\* the access check of write / resize / close: owner tenant or admin scope
terminalAccessDeniedNegationLost(client, session) ==
    hasAdminScope(client) /\ session.tenantId # getTenantId(client)
terminalAccessDenied(client, session) ==
    ~hasAdminScope(client) /\ session.tenantId # getTenantId(client)

Response(op, c, id, ok, code, message) ==
    [op |-> op, conn |-> c, terminalId |-> id, ok |-> ok, code |-> code, message |-> message]

\* terminal.spawn.  The handler awaits the sandbox spawner; the model takes the
\* handler as one step.  id: the fresh id randomUUID() returns, one that was
\* never used.  spawnFails: the spawner throws.
TerminalSpawn(c, id, cols, rows, spawnFails) ==
    LET client   == conns[c]
        tenantId == getTenantId(client)
    IN /\ client # Nil
       /\ pty[id] = Nil
       /\ IF tenantId = None
          THEN /\ last' = Response("terminal.spawn", c, None, FALSE, UNAUTHORIZED,
                                   "Tenant authentication required for terminal access")
               /\ UNCHANGED termVars
          ELSE IF client.connId = None
          THEN /\ last' = Response("terminal.spawn", c, None, FALSE, UNAUTHORIZED,
                                   "Connection ID required")
               /\ UNCHANGED termVars
          ELSE IF spawnFails
          THEN /\ last' = Response("terminal.spawn", c, None, FALSE, UNAVAILABLE,
                                   "Failed to spawn terminal")
               /\ UNCHANGED termVars
          ELSE /\ terminalSessions' =
                     [terminalSessions EXCEPT ![id] = Session(id, tenantId, client.connId, now)]
               /\ pty' = [pty EXCEPT ![id] = Handle(clampCols(cols, 80), clampRows(rows, 24))]
               /\ last' = Response("terminal.spawn", c, id, TRUE, OK, "")
       /\ effects' = NoEffects
       /\ UNCHANGED <<regVars, conns, storeVars, now, pureVars>>

\* terminal.write.  dataLen = -1: params.data is not a string.  throws: pty.write throws.
TerminalWrite(c, id, dataLen, throws) ==
    LET client  == conns[c]
        session == sessionOf(id)
    IN /\ client # Nil
       /\ IF id = None
          THEN /\ last' = Response("terminal.write", c, id, FALSE, INVALID_REQUEST, "terminalId required")
               /\ UNCHANGED termVars
          ELSE IF dataLen = -1
          THEN /\ last' = Response("terminal.write", c, id, FALSE, INVALID_REQUEST, "data required")
               /\ UNCHANGED termVars
          ELSE IF session = Nil
          THEN /\ last' = Response("terminal.write", c, id, FALSE, NOT_FOUND, "Terminal session not found")
               /\ UNCHANGED termVars
          ELSE IF terminalAccessDenied(client, session)
          THEN /\ last' = Response("terminal.write", c, id, FALSE, UNAUTHORIZED, "Access denied")
               /\ UNCHANGED termVars
          ELSE IF throws
          THEN /\ last' = Response("terminal.write", c, id, FALSE, UNAVAILABLE, "Failed to write to terminal")
               /\ UNCHANGED termVars
          ELSE /\ pty[id].writes < MaxWrites
               /\ pty' = [pty EXCEPT ![id].writes = @ + 1]
               /\ terminalSessions' = [terminalSessions EXCEPT ![id].lastActivityAt = now]
               /\ last' = Response("terminal.write", c, id, TRUE, OK, "")
       /\ effects' = NoEffects
       /\ UNCHANGED <<regVars, conns, storeVars, now, pureVars>>

\* terminal.resize.  cols / rows = -1: not a number.  throws: pty.resize throws.
TerminalResize(c, id, cols, rows, throws) ==
    LET client  == conns[c]
        session == sessionOf(id)
    IN /\ client # Nil
       /\ IF id = None
          THEN /\ last' = Response("terminal.resize", c, id, FALSE, INVALID_REQUEST, "terminalId required")
               /\ UNCHANGED termVars
          ELSE IF cols = -1 \/ rows = -1
          THEN /\ last' = Response("terminal.resize", c, id, FALSE, INVALID_REQUEST, "cols and rows required")
               /\ UNCHANGED termVars
          ELSE IF session = Nil
          THEN /\ last' = Response("terminal.resize", c, id, FALSE, NOT_FOUND, "Terminal session not found")
               /\ UNCHANGED termVars
          ELSE IF terminalAccessDenied(client, session)
          THEN /\ last' = Response("terminal.resize", c, id, FALSE, UNAUTHORIZED, "Access denied")
               /\ UNCHANGED termVars
          ELSE IF throws
          THEN /\ last' = Response("terminal.resize", c, id, FALSE, UNAVAILABLE, "Failed to resize terminal")
               /\ UNCHANGED termVars
          ELSE /\ pty' = [pty EXCEPT ![id].cols = clampCols(cols, 80),
                                     ![id].rows = clampRows(rows, 24)]
               /\ terminalSessions' = [terminalSessions EXCEPT ![id].lastActivityAt = now]
               /\ last' = Response("terminal.resize", c, id, TRUE, OK, "")
       /\ effects' = NoEffects
       /\ UNCHANGED <<regVars, conns, storeVars, now, pureVars>>

\* terminal.close.  killThrows: pty.kill throws; the record is removed all the same.
TerminalClose(c, id, killThrows) ==
    LET client  == conns[c]
        session == sessionOf(id)
    IN /\ client # Nil
       /\ IF id = None
          THEN /\ last' = Response("terminal.close", c, id, FALSE, INVALID_REQUEST, "terminalId required")
               /\ UNCHANGED termVars
          ELSE IF session = Nil
          THEN /\ last' = Response("terminal.close", c, id, FALSE, NOT_FOUND, "Terminal session not found")
               /\ UNCHANGED termVars
          ELSE IF terminalAccessDenied(client, session)
          THEN /\ last' = Response("terminal.close", c, id, FALSE, UNAUTHORIZED, "Access denied")
               /\ UNCHANGED termVars
          ELSE /\ pty' = IF killThrows THEN pty ELSE [pty EXCEPT ![id].state = "killed"]
               /\ terminalSessions' = [terminalSessions EXCEPT ![id] = Nil]
               /\ last' = Response("terminal.close", c, id, TRUE, OK,
                                   IF killThrows THEN "warning" ELSE "")
       /\ effects' = NoEffects
       /\ UNCHANGED <<regVars, conns, storeVars, now, pureVars>>

\* terminal.list: admin sees all, a tenant sees its own
listedSessions(client) ==
    { id \in TerminalIds : /\ terminalSessions[id] # Nil
                           /\ \/ hasAdminScope(client)
                              \/ terminalSessions[id].tenantId = getTenantId(client) }

TerminalList(c) ==
    /\ conns[c] # Nil
    /\ last' = [op |-> "terminal.list", conn |-> c, terminalId |-> None, ok |-> TRUE, code |-> OK, message |-> "", sessions |-> listedSessions(conns[c])]
    /\ effects' = NoEffects
    /\ UNCHANGED <<regVars, conns, storeVars, termVars, now, pureVars>>

\* pty.onData callback installed by spawn: output of a running process;
\* the event it broadcasts (to the set connIds) is recorded in `last`
\* (PtyDataToTenant: a callback that fans the output out to the tenant's connections)
PtyDataToTenant(id) ==
    /\ pty[id] # Nil
    /\ pty[id].state = "running"
    /\ terminalSessions[id] # Nil
    /\ terminalSessions' = [terminalSessions EXCEPT ![id].lastActivityAt = now]
    /\ last' = [op |-> "pty.data", terminalId |-> id, event |-> "terminal.output",
                connIds |-> { c \in ConnIds : /\ conns[c] # Nil
                                              /\ getTenantId(conns[c]) = terminalSessions[id].tenantId }]
    /\ effects' = NoEffects
    /\ UNCHANGED <<regVars, conns, storeVars, pty, now, pureVars>>
PtyData(id) ==
    /\ pty[id] # Nil
    /\ pty[id].state = "running"
    /\ terminalSessions[id] # Nil
    /\ terminalSessions' = [terminalSessions EXCEPT ![id].lastActivityAt = now]
    /\ last' = [op |-> "pty.data", terminalId |-> id, event |-> "terminal.output",
                connIds |-> {terminalSessions[id].connId}]
    /\ effects' = NoEffects
    /\ UNCHANGED <<regVars, conns, storeVars, pty, now, pureVars>>

\* The handle invokes its exit callbacks when the child process closes and also
\* when it reports an error, so the callback of one terminal can run twice:
\* "errored" is a process whose error callbacks have run and whose close is
\* still to come.
\* (PtyExitAnnouncesAlways: the callback broadcasts without looking the session up)
PtyExitAnnouncesAlways(id) ==
    /\ pty[id] # Nil
    /\ pty[id].state \in {"running", "killed", "errored"}
    /\ pty' = [pty EXCEPT ![id] = Exited]
    /\ last' = [op |-> "pty.exit", terminalId |-> id, event |-> "terminal.exit",
                connIds |-> {}, invocation |-> IF pty[id].state = "errored" THEN 2 ELSE 1]
    /\ terminalSessions' = [terminalSessions EXCEPT ![id] = Nil]
    /\ effects' = NoEffects
    /\ UNCHANGED <<regVars, conns, storeVars, now, pureVars>>
\* pty.onExit callback installed by spawn: the process has exited (by itself or killed)
PtyExit(id) ==
    /\ pty[id] # Nil
    /\ pty[id].state \in {"running", "killed", "errored"}
    /\ pty' = [pty EXCEPT ![id] = Exited]
    /\ IF terminalSessions[id] # Nil
       THEN /\ last' = [op |-> "pty.exit", terminalId |-> id, event |-> "terminal.exit",
                        connIds |-> {terminalSessions[id].connId},
                        invocation |-> IF pty[id].state = "errored" THEN 2 ELSE 1]
            /\ terminalSessions' = [terminalSessions EXCEPT ![id] = Nil]
       ELSE /\ last' = [op |-> "pty.exit", terminalId |-> id, event |-> None, connIds |-> {},
                        invocation |-> IF pty[id].state = "errored" THEN 2 ELSE 1]
            /\ UNCHANGED terminalSessions
    /\ effects' = NoEffects
    /\ UNCHANGED <<regVars, conns, storeVars, now, pureVars>>

\* the same callback, invoked by the handle's error event: the process is not
\* yet closed
PtyError(id) ==
    /\ pty[id] # Nil
    /\ pty[id].state \in {"running", "killed"}
    /\ pty' = [pty EXCEPT ![id].state = "errored"]
    /\ IF terminalSessions[id] # Nil
       THEN /\ last' = [op |-> "pty.error", terminalId |-> id, event |-> "terminal.exit",
                        connIds |-> {terminalSessions[id].connId}, invocation |-> 1]
            /\ terminalSessions' = [terminalSessions EXCEPT ![id] = Nil]
       ELSE /\ last' = [op |-> "pty.error", terminalId |-> id, event |-> None, connIds |-> {},
                        invocation |-> 1]
            /\ UNCHANGED terminalSessions
    /\ effects' = NoEffects
    /\ UNCHANGED <<regVars, conns, storeVars, now, pureVars>>

\* closeAllTenantTerminals(tenantId): kill and remove every session of the tenant
closeAllTenantTerminals(sessions, tenantId) ==
    [id \in TerminalIds |->
        IF sessions[id] # Nil /\ sessions[id].tenantId = tenantId THEN Nil ELSE sessions[id]]

\* a call of closeAllTenantTerminals; killThrows: the terminals whose
\* pty.kill() throws (ignored)
CloseAllTenantTerminals(tenantId, killThrows) ==
    LET closed == { id \in TerminalIds :
                      terminalSessions[id] # Nil /\ terminalSessions[id].tenantId = tenantId }
    IN /\ pty' = [id \in TerminalIds |->
                    IF id \in closed \ killThrows
                    THEN [pty[id] EXCEPT !.state = "killed"] ELSE pty[id]]
       /\ terminalSessions' = closeAllTenantTerminals(terminalSessions, tenantId)
       /\ last' = [op |-> "closeAllTenantTerminals", tenantId |-> tenantId,
                   closed |-> Cardinality(closed), event |-> None, connIds |-> {}]
       /\ effects' = NoEffects
       /\ UNCHANGED <<regVars, conns, storeVars, now, pureVars>>

\* Max idle time before a terminal is cleaned up: 5 * 60 * 1000 ms.  In the
\* specification with the reaper the clock counts minutes, so the reaper's
\* period (60_000 ms) is one unit.
TERMINAL_IDLE_TIMEOUT_MS == 5

\* the test of the cleanup callback on one session
\* (idleAtTimeout: a test that also takes a session idle for exactly the timeout)
idleAtTimeout(session) == now - session.lastActivityAt >= TERMINAL_IDLE_TIMEOUT_MS
idleTooLong(session) == now - session.lastActivityAt > TERMINAL_IDLE_TIMEOUT_MS

\* the setInterval callback of startCleanupInterval; the interval exists once
\* a spawn has stored a session.  Every session idle for more than the
\* timeout is killed and removed; the callback broadcasts nothing.
\* killThrows: the terminals whose pty.kill() throws (ignored by the callback).
cleanupCallback(killThrows) ==
    LET reaped == { id \in TerminalIds :
                      terminalSessions[id] # Nil /\ idleTooLong(terminalSessions[id]) }
    IN /\ \E id \in TerminalIds : pty[id] # Nil
       /\ pty' = [id \in TerminalIds |->
                    IF id \in reaped \ killThrows
                    THEN [pty[id] EXCEPT !.state = "killed"] ELSE pty[id]]
       /\ terminalSessions' = [id \in TerminalIds |->
                    IF id \in reaped THEN Nil ELSE terminalSessions[id]]
       /\ last' = [op |-> "cleanup", reaped |-> reaped, event |-> None, connIds |-> {}]
       /\ effects' = NoEffects
       /\ UNCHANGED <<regVars, conns, storeVars, now, pureVars>>

----------------------------------------------------------------------------
(* Tenant configuration overlays: src/config (tenant overlay module).  A    *)
(* JSON value is a record with its kind; an object holds `fields`, the      *)
(* function from the keys it has to their values.  A configuration is the   *)
(* `fields` of an object.  overlayFile[t] is the parsed content of the      *)
(* tenant's openclaw.json, Nil when the file does not exist.                *)

Prim(v)     == [kind |-> "primitive", v |-> v]
Null        == [kind |-> "null"]
Arr         == [kind |-> "array"]
Invalid     == [kind |-> "invalid"]
Undefined   == [kind |-> "undefined"]
Obj(fields) == [kind |-> "object", fields |-> fields]
NoFields    == [k \in {} |-> Null]

ADMIN_ONLY_KEYS == {"gateway", "models", "meta"}
ADMIN_ONLY_NESTED_KEYS == [agents |-> {"credentialsPath"}, env |-> {"shellEnv"}]

\* an object in the sense of the tests of deepMerge and filterAdminOnlyKeys:
\* typeof "object", not null, not an array
isPlainObject(value) == value.kind = "object"

\* deepMerge(base, overlay): the overlay's value wins, objects are merged
RECURSIVE deepMerge(_, _)
deepMerge(base, overlay) ==
    [key \in DOMAIN base \cup DOMAIN overlay |->
        IF key \notin DOMAIN overlay THEN base[key]
        ELSE IF key \in DOMAIN base /\ isPlainObject(base[key]) /\ isPlainObject(overlay[key])
        THEN Obj(deepMerge(base[key].fields, overlay[key].fields))
        ELSE overlay[key]]

\* filterAdminOnlyKeys: the top-level keys, then the nested keys of a parent
\* that is an object
filterAdminOnlyKeys(config) ==
    LET filtered == [key \in DOMAIN config \ ADMIN_ONLY_KEYS |-> config[key]]
    IN [key \in DOMAIN filtered |->
          IF key \in DOMAIN ADMIN_ONLY_NESTED_KEYS /\ isPlainObject(filtered[key])
          THEN Obj([nestedKey \in DOMAIN filtered[key].fields \ ADMIN_ONLY_NESTED_KEYS[key] |->
                       filtered[key].fields[nestedKey]])
          ELSE filtered[key]]

\* the overlay read from the file: empty when the file is missing, cannot be
\* parsed or is not an object
loadTenantConfigOverlay(tenantId) ==
    IF overlayFile[tenantId] = Nil \/ ~isPlainObject(overlayFile[tenantId]) THEN NoFields
    ELSE filterAdminOnlyKeys(overlayFile[tenantId].fields)

\* loadConfig(): the base configuration of the gateway
loadConfig ==
    [gateway |-> Prim("base"), models |-> Prim("base"), meta |-> Prim("base"),
     agents  |-> Obj([credentialsPath |-> Prim("base"), defaults |-> Prim("base")]),
     env     |-> Obj([shellEnv |-> Prim("base")])]

mergeConfigs(base, overlay) == deepMerge(base, overlay)

loadConfigForTenant(tenantId) == mergeConfigs(loadConfig, loadTenantConfigOverlay(tenantId))

\* config[key] and config[parent][key] as JavaScript reads them
get(config, key) == IF key \in DOMAIN config THEN config[key] ELSE Undefined
getNested(config, parent, key) ==
    IF isPlainObject(get(config, parent)) THEN get(get(config, parent).fields, key)
    ELSE Undefined

\* the values of the admin-only keys of a configuration
adminOnlyValues(config) ==
    [gateway |-> get(config, "gateway"), models |-> get(config, "models"),
     meta |-> get(config, "meta"),
     credentialsPath |-> getNested(config, "agents", "credentialsPath"),
     shellEnv |-> getNested(config, "env", "shellEnv")]

\* the configurations a caller passes and a file holds
ObjectsOver(keys) == UNION { [present -> {Prim("tenant")}] : present \in SUBSET keys }
ValuesOf == [gateway |-> {Prim("tenant")},
             agents  |-> {Prim("tenant"), Arr}
                             \cup { Obj(f) : f \in ObjectsOver({"credentialsPath", "defaults"}) },
             env     |-> {Null} \cup { Obj(f) : f \in ObjectsOver({"shellEnv"}) }]
Configs ==
    UNION { { f \in [present -> UNION { ValuesOf[k] : k \in present }] :
                \A k \in present : f[k] \in ValuesOf[k] } : present \in SUBSET DOMAIN ValuesOf }
FileContents == {Nil, Invalid, Arr} \cup { Obj(config) : config \in Configs }

writeFile(tenantId, filtered) == overlayFile' = [overlayFile EXCEPT ![tenantId] = Obj(filtered)]

writeTenantConfig(tenantId, config) ==
    /\ writeFile(tenantId, filterAdminOnlyKeys(config))
    /\ last' = [op |-> "writeTenantConfig", tenantId |-> tenantId, wrote |-> TRUE]
    /\ effects' = NoEffects
    /\ UNCHANGED <<regVars, conns, ledgerVars, cronVars, controlPlaneToken, pairing, fileSystem,
                   s3Objects, cronJobs, termVars, now, pureVars>>

updateTenantConfig(tenantId, updates) ==
    LET existing == loadTenantConfigOverlay(tenantId)
        merged   == deepMerge(existing, filterAdminOnlyKeys(updates))
    IN /\ writeFile(tenantId, filterAdminOnlyKeys(merged))
       /\ last' = [op |-> "updateTenantConfig", tenantId |-> tenantId, wrote |-> TRUE]
       /\ effects' = NoEffects
       /\ UNCHANGED <<regVars, conns, ledgerVars, cronVars, controlPlaneToken, pairing,
                      fileSystem, s3Objects, cronJobs, termVars, now, pureVars>>

deleteTenantConfigKey(tenantId, key) ==
    LET existing == loadTenantConfigOverlay(tenantId)
        deleted  == [k \in DOMAIN existing \ {key} |-> existing[k]]
    IN /\ IF key \in ADMIN_ONLY_KEYS THEN UNCHANGED overlayFile
          ELSE writeFile(tenantId, filterAdminOnlyKeys(deleted))
       /\ last' = [op |-> "deleteTenantConfigKey", tenantId |-> tenantId,
                   wrote |-> key \notin ADMIN_ONLY_KEYS]
       /\ effects' = NoEffects
       /\ UNCHANGED <<regVars, conns, ledgerVars, cronVars, controlPlaneToken, pairing,
                      fileSystem, s3Objects, cronJobs, termVars, now, pureVars>>


----------------------------------------------------------------------------
(* Backup archives: the tenants' backup module (src/infra/system-metrics.ts *)
(* lines 525-908).  An absolute path is the sequence of its segments; a     *)
(* path as written in an archive is a record: abs (it starts with "/") and  *)
(* segs.  A file-system node is a record: path, type and target, the file   *)
(* the name refers to (its own path for a regular file).                    *)

\* resolveTenantStateDir(tenantId)
resolveTenantStateDir(tenantId) == <<"tenants", tenantId>>

RelPath(segs) == [abs |-> FALSE, segs |-> segs]
AbsPath(segs) == [abs |-> TRUE, segs |-> segs]

\* normalisation as path.resolve and path.join do it: "." and "" are dropped,
\* ".." removes the last segment, the root is its own parent
RECURSIVE walk(_, _)
walk(base, segs) ==
    IF segs = <<>> THEN base
    ELSE LET s == Head(segs)
         IN walk(IF s = ".." THEN SubSeq(base, 1, Len(base) - 1)
                 ELSE IF s \in {".", ""} THEN base
                 ELSE Append(base, s),
                 Tail(segs))

\* path.resolve(from, to): an absolute `to` replaces `from`
resolve(from, to) == walk(IF to.abs THEN <<>> ELSE from, to.segs)
\* path.join(from, to): `to` is appended even when it starts with "/"
join(from, to) == walk(from, to.segs)
\* path.dirname
dirname(path) == SubSeq(path, 1, Len(path) - 1)

\* p.startsWith(dir + path.sep) || p === dir
isWithin(p, dir) == Len(p) >= Len(dir) /\ SubSeq(p, 1, Len(dir)) = dir

TarEntry(type, path, linkpath) == [type |-> type, path |-> path, linkpath |-> linkpath]

\* the filter extractTarGz gives tar.extract: TRUE keeps the entry
filter(entry, resolvedTargetDir) ==
    LET entryDir     == dirname(join(resolvedTargetDir, entry.path))
        resolvedLink == resolve(entryDir, entry.linkpath)
    IN IF entry.type \in {"SymbolicLink", "Link"} /\ ~isWithin(resolvedLink, resolvedTargetDir)
       THEN FALSE
       ELSE isWithin(resolve(resolvedTargetDir, entry.path), resolvedTargetDir)

\* tar.extract with preservePaths: false skips an entry whose path holds ".."
\* and strips the root of an absolute path
skippedByTar(entry) == \E i \in 1..Len(entry.path.segs) : entry.path.segs[i] = ".."

\* what an entry refers to once unpacked in cwd: a symbolic link is taken
\* relative to the directory of the link, a hard link relative to cwd
linkTarget(entry, cwd) ==
    IF entry.type = "SymbolicLink" THEN resolve(dirname(join(cwd, entry.path)), entry.linkpath)
    ELSE IF entry.type = "Link" THEN resolve(cwd, entry.linkpath)
    ELSE join(cwd, entry.path)

Node(path, type, target) == [path |-> path, type |-> type, target |-> target]

\* a release of tar that refuses a link path holding ".." (strict) skips the
\* entry; an earlier release makes the link
refusedByTar(entry, strict) ==
    /\ strict
    /\ entry.type \in {"SymbolicLink", "Link"}
    /\ \E i \in 1..Len(entry.linkpath.segs) : entry.linkpath.segs[i] = ".."

\* one entry unpacked: a hard link is made only to a file that exists
unpacked(files, entry, cwd, strict) ==
    IF ~filter(entry, cwd) \/ skippedByTar(entry) \/ refusedByTar(entry, strict) THEN files
    ELSE IF entry.type = "Link" /\ ~\E n \in files : n.path = linkTarget(entry, cwd) THEN files
    ELSE { n \in files : n.path # join(cwd, entry.path) }
            \cup {Node(join(cwd, entry.path), entry.type, linkTarget(entry, cwd))}

\* extractTarGz(archivePath, targetDir): the entries in the order of the archive
RECURSIVE extractTarGz(_, _, _, _)
extractTarGz(files, entries, targetDir, strict) ==
    IF entries = <<>> THEN files
    ELSE extractTarGz(unpacked(files, Head(entries), targetDir, strict), Tail(entries),
                      targetDir, strict)

\* the keys of the bucket: `${prefix}/${tenantId}/${archiveName}`, prefix "backups"
BackupKeys == { <<"backups", t, "1">> : t \in Tenants }

\* key.startsWith(`${prefix}/${tenantId}/`)
isOwnBackupKey(key, tenantId) == Len(key) >= 3 /\ SubSeq(key, 1, 2) = <<"backups", tenantId>>

\* GetObjectCommand: the object at the key, Nil when there is none
getObject(key) == IF key \in DOMAIN s3Objects THEN s3Objects[key] ELSE Nil

\* where a restore can fail: the download (s3.send throws, or the body is
\* empty) and the extraction (tar rejects the archive)
RestoreFailures == {"none", "download", "extract"}

\* restoreTenantFromS3: the tenant is created when missing and asked for,
\* the object is downloaded, the state directory is cleared, the archive is
\* extracted.  createIfMissing "undefined" takes the default, true.
\* throws: the step that fails, of RestoreFailures; an extraction that fails
\* has written nothing.
restoreTenantFromS3(tenantId, key, createIfMissing, throws, strict) ==
    LET missing  == getTenant(registry, tenantId) = Nil
        creates  == missing /\ createIfMissing # "false"
        stateDir == resolveTenantStateDir(tenantId)
        kept     == { n \in fileSystem : ~isWithin(n.path, stateDir) \/ n.path = stateDir }
    IN IF creates /\ createTenantThrows(registry, tenantId)
       THEN [ok |-> FALSE, created |-> FALSE, files |-> fileSystem]
       ELSE IF missing /\ ~creates
       THEN [ok |-> FALSE, created |-> FALSE, files |-> fileSystem]
       ELSE IF throws = "download" \/ getObject(key) = Nil
       THEN [ok |-> FALSE, created |-> creates, files |-> fileSystem]
       ELSE IF throws = "extract"
       THEN [ok |-> FALSE, created |-> creates, files |-> kept]
       ELSE [ok |-> TRUE, created |-> creates,
             files |-> extractTarGz(kept, getObject(key).entries, stateDir, strict)]


----------------------------------------------------------------------------
(* Tenant management handlers: src/gateway/server-methods/tenants.ts       *)
(* params.tenantId = None: missing or not a string.  `effects` logs the    *)
(* registry / usage / backup calls the handler made: <<operation, tenant>>. *)

TResponse(op, c, tenantId, ok, code, message) ==
    [op |-> op, conn |-> c, target |-> tenantId, ok |-> ok, code |-> code, message |-> message]

\* tenants.create: admin only
TenantsCreate(c, tenantId) ==
    LET client == conns[c]
    IN /\ client # Nil
       /\ nextSecret <= MaxSecrets
       /\ IF ~hasAdminScope(client)
          THEN /\ last' = TResponse("tenants.create", c, tenantId, FALSE, UNAUTHORIZED, "Admin access required")
               /\ effects' = NoEffects
               /\ UNCHANGED regVars
          ELSE IF tenantId = None
          THEN /\ last' = TResponse("tenants.create", c, tenantId, FALSE, INVALID_REQUEST, "tenantId is required")
               /\ effects' = NoEffects
               /\ UNCHANGED regVars
          ELSE IF ~isValidTenantId(tenantId)
          THEN /\ last' = TResponse("tenants.create", c, tenantId, FALSE, INVALID_REQUEST, "Invalid tenant ID format")
               /\ effects' = NoEffects
               /\ UNCHANGED regVars
          ELSE /\ effects' = {<<"createTenant", tenantId>>}
               /\ IF createTenantThrows(registry, tenantId)
                  THEN /\ last' = TResponse("tenants.create", c, tenantId, FALSE, UNAVAILABLE, "Tenant already exists")
                       /\ UNCHANGED regVars
                  ELSE /\ registry' = createTenant(registry, tenantId, nextSecret)
                       /\ issued' = [issued EXCEPT ![tenantId] =
                                        buildTenantToken(tenantId, generateToken(nextSecret))]
                       /\ nextSecret' = nextSecret + 1
                       /\ last' = TResponse("tenants.create", c, tenantId, TRUE, OK, "")
       /\ UNCHANGED <<conns, storeVars, termVars, now, pureVars>>

\* tenants.get
TenantsGet(c, tenantId) ==
    LET client == conns[c]
    IN /\ client # Nil
       /\ IF tenantId = None
          THEN /\ last' = TResponse("tenants.get", c, tenantId, FALSE, INVALID_REQUEST, "tenantId is required")
               /\ effects' = NoEffects
          ELSE IF ~canAccessTenant(client, tenantId)
          THEN /\ last' = TResponse("tenants.get", c, tenantId, FALSE, UNAUTHORIZED, "Access denied")
               /\ effects' = NoEffects
          ELSE /\ effects' = {<<"getTenant", tenantId>>}
               /\ last' = IF getTenant(registry, tenantId) = Nil
                          THEN TResponse("tenants.get", c, tenantId, FALSE, NOT_FOUND, "Tenant not found")
                          ELSE TResponse("tenants.get", c, tenantId, TRUE, OK, "")
       /\ UNCHANGED <<regVars, conns, storeVars, termVars, now, pureVars>>

\* tenants.delete: admin, or the tenant itself with confirm: true
TenantsDelete(c, tenantId, confirm) ==
    LET client       == conns[c]
        isSelfDelete == getTenantId(client) = tenantId /\ ~hasAdminScope(client)
    IN /\ client # Nil
       /\ IF tenantId = None
          THEN /\ last' = TResponse("tenants.delete", c, tenantId, FALSE, INVALID_REQUEST, "tenantId is required")
               /\ effects' = NoEffects
               /\ UNCHANGED registry
          ELSE IF ~canAccessTenant(client, tenantId)
          THEN /\ last' = TResponse("tenants.delete", c, tenantId, FALSE, UNAUTHORIZED, "Access denied")
               /\ effects' = NoEffects
               /\ UNCHANGED registry
          ELSE IF isSelfDelete /\ ~confirm
          THEN /\ last' = TResponse("tenants.delete", c, tenantId, FALSE, INVALID_REQUEST, "Self-delete requires confirm: true")
               /\ effects' = NoEffects
               /\ UNCHANGED registry
          ELSE /\ effects' = {<<"removeTenant", tenantId>>}
               /\ IF tenantMissing(registry, tenantId)
                  THEN /\ last' = TResponse("tenants.delete", c, tenantId, FALSE, UNAVAILABLE, "Tenant not found")
                       /\ UNCHANGED registry
                  ELSE /\ registry' = removeTenant(registry, tenantId)
                       /\ last' = TResponse("tenants.delete", c, tenantId, TRUE, OK, "")
       /\ UNCHANGED <<nextSecret, issued, conns, storeVars, termVars, now, pureVars>>

\* tenants.rotate
TenantsRotate(c, tenantId) ==
    LET client == conns[c]
    IN /\ client # Nil
       /\ nextSecret <= MaxSecrets
       /\ IF tenantId = None
          THEN /\ last' = TResponse("tenants.rotate", c, tenantId, FALSE, INVALID_REQUEST, "tenantId is required")
               /\ effects' = NoEffects
               /\ UNCHANGED regVars
          ELSE IF ~canAccessTenant(client, tenantId)
          THEN /\ last' = TResponse("tenants.rotate", c, tenantId, FALSE, UNAUTHORIZED, "Access denied")
               /\ effects' = NoEffects
               /\ UNCHANGED regVars
          ELSE /\ effects' = {<<"rotateTenantToken", tenantId>>}
               /\ IF tenantMissing(registry, tenantId)
                  THEN /\ last' = TResponse("tenants.rotate", c, tenantId, FALSE, UNAVAILABLE, "Tenant not found")
                       /\ UNCHANGED regVars
                  ELSE /\ registry' = rotateTenantToken(registry, tenantId, nextSecret)
                       /\ issued' = [issued EXCEPT ![tenantId] =
                                        buildTenantToken(tenantId, generateToken(nextSecret))]
                       /\ nextSecret' = nextSecret + 1
                       /\ last' = TResponse("tenants.rotate", c, tenantId, TRUE, OK, "")
       /\ UNCHANGED <<conns, storeVars, termVars, now, pureVars>>

\* tenants.update: admin only; disabled is "undefined", "true" or "false"
TenantsUpdate(c, tenantId, disabled) ==
    LET client == conns[c]
    IN /\ client # Nil
       /\ IF ~hasAdminScope(client)
          THEN /\ last' = TResponse("tenants.update", c, tenantId, FALSE, UNAUTHORIZED, "Admin access required")
               /\ effects' = NoEffects
               /\ UNCHANGED registry
          ELSE IF tenantId = None
          THEN /\ last' = TResponse("tenants.update", c, tenantId, FALSE, INVALID_REQUEST, "tenantId is required")
               /\ effects' = NoEffects
               /\ UNCHANGED registry
          ELSE /\ effects' = {<<"updateTenant", tenantId>>}
               /\ IF tenantMissing(registry, tenantId)
                  THEN /\ last' = TResponse("tenants.update", c, tenantId, FALSE, UNAVAILABLE, "Tenant not found")
                       /\ UNCHANGED registry
                  ELSE /\ registry' = updateTenant(registry, tenantId, disabled)
                       /\ last' = [op |-> "tenants.update", conn |-> c, target |-> tenantId, ok |-> TRUE, code |-> OK,
                                   message |-> "", disabled |-> disabled]
       /\ UNCHANGED <<nextSecret, issued, conns, storeVars, termVars, now, pureVars>>

\* The backup, restore and usage modules are external collaborators: a call
\* either returns or throws (`throws`), and is logged in `effects`.

\* the part shared by the handlers below: tenantId required, then canAccessTenant
tenantGate(op, c, tenantId) ==
    IF tenantId = None
    THEN TResponse(op, c, tenantId, FALSE, INVALID_REQUEST, "tenantId is required")
    ELSE IF ~canAccessTenant(conns[c], tenantId)
    THEN TResponse(op, c, tenantId, FALSE, UNAUTHORIZED, "Access denied")
    ELSE Nil

\* tenants.backup: bucket required, then backupTenantToS3
TenantsBackup(c, tenantId, hasBucket, throws) ==
    LET gate == tenantGate("tenants.backup", c, tenantId)
    IN /\ conns[c] # Nil
       /\ IF gate # Nil
          THEN last' = gate /\ effects' = NoEffects
          ELSE IF ~hasBucket
          THEN /\ last' = TResponse("tenants.backup", c, tenantId, FALSE, INVALID_REQUEST, "bucket is required")
               /\ effects' = NoEffects
          ELSE /\ effects' = {<<"backupTenantToS3", tenantId>>}
               /\ last' = IF throws
                          THEN TResponse("tenants.backup", c, tenantId, FALSE, UNAVAILABLE, "backup failed")
                          ELSE TResponse("tenants.backup", c, tenantId, TRUE, OK, "")
       /\ UNCHANGED <<regVars, conns, storeVars, termVars, now, pureVars>>

\* tenants.restore: key and bucket required, then restoreTenantFromS3;
\* key <<>>: missing or empty.  Only an admin's createIfMissing is passed on.
TenantsRestore(c, tenantId, key, hasBucket, createIfMissing, throws, strict) ==
    LET gate   == tenantGate("tenants.restore", c, tenantId)
        result == restoreTenantFromS3(tenantId, key,
                      IF hasAdminScope(conns[c]) THEN createIfMissing ELSE "false", throws, strict)
    IN /\ conns[c] # Nil
       /\ nextSecret <= MaxSecrets
       /\ IF gate # Nil
          THEN last' = gate /\ effects' = NoEffects /\ UNCHANGED <<registry, nextSecret, fileSystem>>
          ELSE IF key = <<>>
          THEN /\ last' = TResponse("tenants.restore", c, tenantId, FALSE, INVALID_REQUEST, "key is required")
               /\ effects' = NoEffects
               /\ UNCHANGED <<registry, nextSecret, fileSystem>>
          ELSE IF ~hasBucket
          THEN /\ last' = TResponse("tenants.restore", c, tenantId, FALSE, INVALID_REQUEST, "bucket is required")
               /\ effects' = NoEffects
               /\ UNCHANGED <<registry, nextSecret, fileSystem>>
          ELSE /\ effects' = {<<"restoreTenantFromS3", tenantId>>}
               /\ IF result.created
                  THEN /\ registry' = createTenant(registry, tenantId, nextSecret)
                       /\ nextSecret' = nextSecret + 1
                  ELSE UNCHANGED <<registry, nextSecret>>
               /\ fileSystem' = result.files
               /\ last' = IF result.ok
                          THEN TResponse("tenants.restore", c, tenantId, TRUE, OK, "")
                                  @@ [sourceKey |-> key]
                          ELSE TResponse("tenants.restore", c, tenantId, FALSE, UNAVAILABLE, "restore failed")
       /\ UNCHANGED <<issued, conns, ledgerVars, cronVars, controlPlaneToken, pairing,
                      overlayFile, s3Objects, cronJobs, termVars, now, pureVars>>

\* tenants.backups.list: bucket required, then listTenantBackups
TenantsBackupsList(c, tenantId, hasBucket, throws) ==
    LET gate == tenantGate("tenants.backups.list", c, tenantId)
    IN /\ conns[c] # Nil
       /\ IF gate # Nil
          THEN last' = gate /\ effects' = NoEffects
          ELSE IF ~hasBucket
          THEN /\ last' = TResponse("tenants.backups.list", c, tenantId, FALSE, INVALID_REQUEST, "bucket is required")
               /\ effects' = NoEffects
          ELSE /\ effects' = {<<"listTenantBackups", tenantId>>}
               /\ last' = IF throws
                          THEN TResponse("tenants.backups.list", c, tenantId, FALSE, UNAVAILABLE, "list failed")
                          ELSE TResponse("tenants.backups.list", c, tenantId, TRUE, OK, "")
       /\ UNCHANGED <<regVars, conns, storeVars, termVars, now, pureVars>>

\* tenants.usage: optional updateDiskUsage, then loadTenantUsage
TenantsUsage(c, tenantId, refreshDisk, throws) ==
    LET gate == tenantGate("tenants.usage", c, tenantId)
    IN /\ conns[c] # Nil
       /\ IF gate # Nil
          THEN last' = gate /\ effects' = NoEffects
          ELSE /\ effects' = (IF refreshDisk THEN {<<"updateDiskUsage", tenantId>>} ELSE {})
                                \cup {<<"loadTenantUsage", tenantId>>}
               /\ last' = IF throws
                          THEN TResponse("tenants.usage", c, tenantId, FALSE, UNAVAILABLE, "usage failed")
                          ELSE TResponse("tenants.usage", c, tenantId, TRUE, OK, "")
       /\ UNCHANGED <<regVars, conns, storeVars, termVars, now, pureVars>>

\* tenants.quota.status: getTenant, then getTenantQuotaStatus
TenantsQuotaStatus(c, tenantId, throws) ==
    LET gate == tenantGate("tenants.quota.status", c, tenantId)
    IN /\ conns[c] # Nil
       /\ IF gate # Nil
          THEN last' = gate /\ effects' = NoEffects
          ELSE IF getTenant(registry, tenantId) = Nil
          THEN /\ effects' = {<<"getTenant", tenantId>>}
               /\ last' = TResponse("tenants.quota.status", c, tenantId, FALSE, NOT_FOUND, "Tenant not found")
          ELSE /\ effects' = {<<"getTenant", tenantId>>, <<"getTenantQuotaStatus", tenantId>>}
               /\ last' = IF throws
                          THEN TResponse("tenants.quota.status", c, tenantId, FALSE, UNAVAILABLE, "status failed")
                          ELSE TResponse("tenants.quota.status", c, tenantId, TRUE, OK, "")
       /\ UNCHANGED <<regVars, conns, storeVars, termVars, now, pureVars>>

\* tenants.usage.history: loadTenantUsageHistory
TenantsUsageHistory(c, tenantId, throws) ==
    LET gate == tenantGate("tenants.usage.history", c, tenantId)
    IN /\ conns[c] # Nil
       /\ IF gate # Nil
          THEN last' = gate /\ effects' = NoEffects
          ELSE /\ effects' = {<<"loadTenantUsageHistory", tenantId>>}
               /\ last' = IF throws
                          THEN TResponse("tenants.usage.history", c, tenantId, FALSE, UNAVAILABLE, "history failed")
                          ELSE TResponse("tenants.usage.history", c, tenantId, TRUE, OK, "")
       /\ UNCHANGED <<regVars, conns, storeVars, termVars, now, pureVars>>

\* control plane DELETE /internal/v1/tenants/{tenantId}: src/gateway/internal-http.ts
\* tokenOk: validateControlPlaneToken accepts the request
ControlPlaneDelete(tenantId, tokenOk) ==
    /\ IF ~tokenOk
       THEN /\ last' = [op |-> "DELETE /tenants", target |-> tenantId, status |-> 401, ok |-> FALSE]
            /\ effects' = NoEffects
            /\ UNCHANGED registry
       ELSE /\ effects' = {<<"removeTenant", tenantId>>}
            /\ IF tenantMissing(registry, tenantId)
               THEN /\ last' = [op |-> "DELETE /tenants", target |-> tenantId, status |-> 500, ok |-> FALSE]
                    /\ UNCHANGED registry
               ELSE /\ registry' = removeTenant(registry, tenantId)
                    /\ last' = [op |-> "DELETE /tenants", target |-> tenantId, status |-> 200, ok |-> TRUE]
    /\ UNCHANGED <<nextSecret, issued, conns, storeVars, termVars, now, pureVars>>

----------------------------------------------------------------------------
(* Control plane HTTP API: src/gateway/internal-http.ts.  A string is the   *)
(* sequence of its characters, a pathname the sequence of its segments.     *)

\* the characters of tokens: two ASCII letters and U+00E9, which a header
\* carries as one byte and Buffer.from encodes in two
TokenChars == {"s", "k", "é"}
utf8Length(ch) == IF ch = "é" THEN 2 ELSE 1

\* Buffer.from(str).length
RECURSIVE byteLength(_)
byteLength(str) == IF str = <<>> THEN 0 ELSE utf8Length(Head(str)) + byteLength(Tail(str))

RECURSIVE StringsOfLen(_)
StringsOfLen(n) ==
    IF n = 0 THEN {<<>>}
    ELSE {Append(str, ch) : str \in StringsOfLen(n - 1), ch \in TokenChars}

\* the X-Control-Plane-Token header; an absent header reads as "" (getHeader(..) ?? "")
HeaderTokens == UNION {StringsOfLen(n) : n \in 0..MaxTokenLen}

\* validateControlPlaneToken: "true", "false", or "throws" when timingSafeEqual
\* is given buffers of different byte lengths.  An undefined and an empty
\* configured token are both <<>>.
validateControlPlaneToken(providedToken) ==
    LET expectedToken == controlPlaneToken
    IN IF expectedToken = <<>> THEN "false"
       ELSE IF Len(providedToken) # Len(expectedToken) THEN "false"
       ELSE IF byteLength(providedToken) # byteLength(expectedToken) THEN "throws"
       ELSE IF providedToken = expectedToken THEN "true" ELSE "false"

INTERNAL_API_PREFIX == <<"internal", "v1">>

\* url.pathname.startsWith(INTERNAL_API_PREFIX)
isInternalPath(pathname) ==
    Len(pathname) >= 2 /\ SubSeq(pathname, 1, 2) = INTERNAL_API_PREFIX

Parsed(resource, tenantId, action, backupKey) ==
    [resource |-> resource, tenantId |-> tenantId, action |-> action, backupKey |-> backupKey]

\* parseInternalPath
parseInternalPath(pathname) ==
    LET subPath == SubSeq(pathname, 3, Len(pathname))
        rest    == SubSeq(subPath, 3, Len(subPath))
    IN IF ~isInternalPath(pathname) THEN Parsed(None, None, None, None)
       ELSE IF subPath = <<"status">> THEN Parsed("status", None, None, None)
       ELSE IF Len(subPath) >= 2 /\ subPath[1] = "tenants" /\ subPath[2] # ""
       THEN IF rest = <<>> THEN Parsed("tenants", subPath[2], None, None)
            ELSE IF rest = <<"backup">> THEN Parsed("tenants", subPath[2], "backup", None)
            ELSE IF rest = <<"restore">> THEN Parsed("tenants", subPath[2], "restore", None)
            ELSE IF rest = <<"backups">> THEN Parsed("tenants", subPath[2], "backups", None)
            ELSE IF Len(rest) = 2 /\ rest[1] = "backups" /\ rest[2] # ""
            THEN Parsed("tenants", subPath[2], "backups", rest[2])
            ELSE Parsed(None, None, None, None)
       ELSE Parsed(None, None, None, None)

\* what a request does: the status sent, the operations called, the change
\* of the registry.  status 0: nothing sent (not handled, or an exception
\* leaves the handler)
Outcome(handled, status, ops, change) ==
    [handled |-> handled, status |-> status, effects |-> ops, change |-> change]

\* handleBackup / handleRestore / handleListBackups / handleDeleteBackup:
\* bucket required (restore: then key), then the operation, 500 when it throws
backupOutcome(operation, subject, body, needsKey, throws) ==
    IF ~body.bucket THEN Outcome(TRUE, 400, {}, "none")
    ELSE IF needsKey /\ ~body.key THEN Outcome(TRUE, 400, {}, "none")
    ELSE Outcome(TRUE, IF throws THEN 500 ELSE 200, {<<operation, subject>>}, "none")

\* handleTenantCrud
handleTenantCrud(req, tenantId) ==
    IF req.method = "GET"
    THEN Outcome(TRUE, IF getTenant(registry, tenantId) = Nil THEN 404 ELSE 200,
                 {<<"getTenant", tenantId>>}, "none")
    ELSE IF req.method = "POST"
    THEN IF ~req.body.valid THEN Outcome(TRUE, 400, {}, "none")
         ELSE IF createTenantThrows(registry, tenantId)
         THEN Outcome(TRUE, 500, {<<"createTenant", tenantId>>}, "none")
         ELSE Outcome(TRUE, 201, {<<"createTenant", tenantId>>}, "create")
    ELSE IF req.method = "DELETE"
    THEN IF tenantMissing(registry, tenantId)
         THEN Outcome(TRUE, 500, {<<"removeTenant", tenantId>>}, "none")
         ELSE Outcome(TRUE, 200, {<<"removeTenant", tenantId>>}, "remove")
    ELSE Outcome(TRUE, 405, {}, "none")

\* the routes of handleInternalHttpRequest behind the token check
routed(req, throws) ==
    LET parsed == parseInternalPath(req.pathname)
        method == req.method
        body   == req.body
    IN IF parsed.resource = "status"
       THEN IF method # "GET" THEN Outcome(TRUE, 405, {}, "none")
            ELSE Outcome(TRUE, 200, {<<"listTenants", None>>}, "none")
       ELSE IF parsed.resource = "tenants" /\ parsed.tenantId # None
       THEN IF parsed.action = "backup"
            THEN IF method # "POST" THEN Outcome(TRUE, 405, {}, "none")
                 ELSE IF ~body.valid THEN Outcome(TRUE, 400, {}, "none")
                 ELSE backupOutcome("backupTenantToS3", parsed.tenantId, body, FALSE, throws)
            ELSE IF parsed.action = "restore"
            THEN IF method # "POST" THEN Outcome(TRUE, 405, {}, "none")
                 ELSE IF ~body.valid THEN Outcome(TRUE, 400, {}, "none")
                 ELSE backupOutcome("restoreTenantFromS3", parsed.tenantId, body, TRUE, throws)
            ELSE IF parsed.action = "backups"
            THEN IF parsed.backupKey # None
                 THEN IF method # "DELETE" THEN Outcome(TRUE, 405, {}, "none")
                      ELSE IF ~body.valid THEN Outcome(TRUE, 400, {}, "none")
                      ELSE backupOutcome("deleteTenantBackup", parsed.backupKey, body, FALSE, throws)
                 ELSE IF method # "GET" THEN Outcome(TRUE, 405, {}, "none")
                      ELSE backupOutcome("listTenantBackups", parsed.tenantId, body, FALSE, throws)
            ELSE handleTenantCrud(req, parsed.tenantId)
       ELSE Outcome(TRUE, 404, {}, "none")

\* handleInternalHttpRequest: returns false for other paths, answers 401
\* unless the token validates, then routes the request
internalOutcome(req, throws) ==
    LET valid == validateControlPlaneToken(req.token)
    IN IF ~isInternalPath(req.pathname) THEN Outcome(FALSE, 0, {}, "none")
       ELSE IF valid = "throws" THEN Outcome(TRUE, 0, {}, "none")
       ELSE IF valid = "false" THEN Outcome(TRUE, 401, {}, "none")
       ELSE routed(req, throws)

\* the requests of the model.  body.bucket: the body (the query of a GET)
\* names a bucket; body.valid: readJsonBodyOrError returns a body
InternalPaths ==
    { <<"internal", "v1">>, <<"internal", "v1", "status">>, <<"internal", "v1", "jobs">>,
      <<"v1", "chat", "completions">> }
    \cup { <<"internal", "v1", "tenants", t>> \o rest :
             t \in {"a", "zz", "A!"},
             rest \in {<<>>, <<"backup">>, <<"restore">>, <<"backups">>, <<"backups", "k1">>} }
InternalBodies ==
    { [valid |-> FALSE, bucket |-> FALSE, key |-> FALSE],
      [valid |-> TRUE, bucket |-> FALSE, key |-> TRUE],
      [valid |-> TRUE, bucket |-> TRUE, key |-> FALSE],
      [valid |-> TRUE, bucket |-> TRUE, key |-> TRUE] }
InternalRequests ==
    [method : {"GET", "POST", "DELETE", "PUT"}, pathname : InternalPaths,
     token : HeaderTokens, body : InternalBodies]

\* one request to the control plane API
handleInternalHttpRequest(req, throws) ==
    LET outcome  == internalOutcome(req, throws)
        tenantId == parseInternalPath(req.pathname).tenantId
    IN /\ nextSecret <= MaxSecrets
       /\ last' = [op |-> "internal-http", req |-> req, handled |-> outcome.handled,
                   status |-> outcome.status]
       /\ effects' = outcome.effects
       /\ IF outcome.change = "create"
          THEN /\ registry' = createTenant(registry, tenantId, nextSecret)
               /\ issued' = [issued EXCEPT ![tenantId] =
                               buildTenantToken(tenantId, generateToken(nextSecret))]
               /\ nextSecret' = nextSecret + 1
          ELSE IF outcome.change = "remove"
          THEN /\ registry' = removeTenant(registry, tenantId)
               /\ UNCHANGED <<nextSecret, issued>>
          ELSE UNCHANGED regVars
       /\ UNCHANGED <<conns, storeVars, termVars, now, pureVars>>

----------------------------------------------------------------------------
(* Method authorization: src/gateway/method-auth.ts                         *)
(* A message built with a template, `text: ${x}`, is the pair <<text, x>>.  *)

TENANT_ALLOWED_METHODS ==
    {"health", "terminal.spawn", "terminal.write", "terminal.resize", "terminal.close",
     "terminal.list", "tenants.get", "tenants.rotate", "tenants.backup", "tenants.backups.list",
     "tenants.restore", "tenants.delete", "tenants.usage", "tenants.quota.status",
     "tenants.usage.history", "config.get", "config.set", "config.patch", "config.schema",
     "agents.list", "agents.create", "agents.update", "agents.delete", "agents.files.list",
     "agents.files.get", "agents.files.set", "sessions.list", "sessions.preview", "cron.list",
     "cron.add", "cron.update", "cron.remove", "cron.status", "cron.runs", "cron.run",
     "skills.status", "skills.bins", "skills.install", "skills.update", "channels.status",
     "channels.start", "channels.stop", "channels.logout", "voicewake.get", "voicewake.set",
     "device.pair.list", "device.pair.approve", "device.pair.reject", "device.token.rotate",
     "device.token.revoke", "node.pair.request", "node.pair.list", "node.pair.approve",
     "node.pair.reject", "node.pair.verify", "node.rename", "node.list", "node.describe",
     "node.invoke"}

APPROVAL_METHODS == {"exec.approval.request", "exec.approval.resolve"}

NODE_ROLE_METHODS == {"node.invoke.result", "node.event", "skills.bins"}

PAIRING_METHODS ==
    {"node.pair.request", "node.pair.list", "node.pair.approve", "node.pair.reject",
     "node.pair.verify", "device.pair.list", "device.pair.approve", "device.pair.reject",
     "device.token.rotate", "device.token.revoke", "node.rename"}

READ_METHODS ==
    {"health", "logs.tail", "channels.status", "status", "usage.status", "usage.cost",
     "tts.status", "tts.providers", "models.list", "agents.list", "agent.identity.get",
     "skills.status", "voicewake.get", "sessions.list", "sessions.preview", "cron.list",
     "cron.status", "cron.runs", "system-presence", "last-heartbeat", "node.list",
     "node.describe", "chat.history", "terminal.list", "tenants.get", "tenants.backups.list",
     "tenants.usage", "tenants.quota.status", "tenants.usage.history"}

WRITE_METHODS ==
    {"send", "agent", "agent.wait", "wake", "talk.mode", "tts.enable", "tts.disable",
     "tts.convert", "tts.setProvider", "voicewake.set", "node.invoke", "chat.send",
     "chat.abort", "browser.request", "terminal.spawn", "terminal.write", "terminal.resize",
     "terminal.close", "tenants.rotate", "tenants.backup"}

\* method names the tables do not list: admin-prefixed, admin-only, handlers of
\* the tenants.* family outside the allow-list, and a name no table knows
OtherMethods ==
    {"exec.approvals.get", "exec.approvals.set", "config.apply", "wizard.start", "update.run",
     "sessions.patch", "sessions.reset", "sessions.delete", "sessions.compact",
     "tenants.list", "tenants.create", "tenants.update", "tenants.backups.delete",
     "tenants.quota.update", "no.such.method"}

Methods ==
    TENANT_ALLOWED_METHODS \cup APPROVAL_METHODS \cup NODE_ROLE_METHODS \cup PAIRING_METHODS
        \cup READ_METHODS \cup WRITE_METHODS \cup OtherMethods

\* ADMIN_METHOD_PREFIXES.some(prefix => method.startsWith(prefix)), over Methods
hasAdminPrefix(method) == method \in {"exec.approvals.get", "exec.approvals.set"}

Allowed == [code |-> OK, message |-> <<>>]
AuthError(text, x) == [code |-> INVALID_REQUEST, message |-> <<text, x>>]

\* client.tenantId && !TENANT_ALLOWED_METHODS.has(method)
tenantMethodBlockedUnlessAdmin(method, client) ==
    /\ client.tenantId # None
    /\ method \notin TENANT_ALLOWED_METHODS
    /\ ADMIN_SCOPE \notin client.scopes
tenantMethodBlocked(method, client) ==
    client.tenantId # None /\ method \notin TENANT_ALLOWED_METHODS

\* a client without a connect record is Nil or has hasConnect = FALSE;
\* role None: connect.role is undefined
authorizeGatewayMethod(method, client) ==
    IF client = Nil \/ ~client.hasConnect THEN Allowed
    ELSE LET role   == IF client.role = None THEN "operator" ELSE client.role
             scopes == client.scopes
         IN IF method \in NODE_ROLE_METHODS
            THEN IF role = "node" THEN Allowed ELSE AuthError("unauthorized role", role)
            ELSE IF role = "node" THEN AuthError("unauthorized role", role)
            ELSE IF role # "operator" THEN AuthError("unauthorized role", role)
            ELSE IF tenantMethodBlocked(method, client)
                 THEN AuthError("method not available for tenant token", method)
            ELSE IF ADMIN_SCOPE \in scopes THEN Allowed
            ELSE IF method \in APPROVAL_METHODS /\ APPROVALS_SCOPE \notin scopes
                 THEN AuthError("missing scope", APPROVALS_SCOPE)
            ELSE IF method \in PAIRING_METHODS /\ PAIRING_SCOPE \notin scopes
                 THEN AuthError("missing scope", PAIRING_SCOPE)
            ELSE IF method \in READ_METHODS /\ ~(READ_SCOPE \in scopes \/ WRITE_SCOPE \in scopes)
                 THEN AuthError("missing scope", READ_SCOPE)
            ELSE IF method \in WRITE_METHODS /\ WRITE_SCOPE \notin scopes
                 THEN AuthError("missing scope", WRITE_SCOPE)
            ELSE IF method \in APPROVAL_METHODS THEN Allowed
            ELSE IF method \in PAIRING_METHODS THEN Allowed
            ELSE IF method \in READ_METHODS THEN Allowed
            ELSE IF method \in WRITE_METHODS THEN Allowed
            ELSE IF hasAdminPrefix(method) THEN AuthError("missing scope", ADMIN_SCOPE)
            ELSE IF client.tenantId # None /\ method \in TENANT_ALLOWED_METHODS THEN Allowed
            ELSE AuthError("missing scope", ADMIN_SCOPE)

\* the clients handed to authorizeGatewayMethod: null, without a connect
\* record, and every role with several scope lists, with and without tenant id
AuthScopes ==
    { {}, {READ_SCOPE}, {WRITE_SCOPE}, {APPROVALS_SCOPE, PAIRING_SCOPE}, {ADMIN_SCOPE},
      {ADMIN_SCOPE, READ_SCOPE, WRITE_SCOPE, APPROVALS_SCOPE, PAIRING_SCOPE} }
AuthRoles == {None, "operator", "node", "viewer"}
AuthClients ==
    {Nil} \cup { [Client("c1", t, "operator", {}) EXCEPT !.hasConnect = FALSE] : t \in {None, "a"} }
          \cup { Client("c1", t, r, sc) : t \in {None, "a"}, r \in AuthRoles, sc \in AuthScopes }

\* the dispatcher consults the authorizer for the request it has parsed
Authorize ==
    /\ last.op = "request"
    /\ last' = [op |-> "authorize", result |-> authorizeGatewayMethod(authIn.method, authIn.client)]
    /\ UNCHANGED <<regVars, conns, storeVars, termVars, now, effects, pureVars>>

----------------------------------------------------------------------------
(* Session-key scoping of the HTTP endpoints: src/gateway/http-utils.ts,    *)
(* openai-http.ts, openresponses-http.ts, http-endpoint-helpers.ts          *)

\* the ":"-separated segments a session key is made of
KeySegments == {"tenant", "a", "b", "agent", ""}
RECURSIVE KeysOfLen(_)
KeysOfLen(n) ==
    IF n = 0 THEN {<<>>}
    ELSE {Append(k, x) : k \in KeysOfLen(n - 1), x \in KeySegments}
\* splitting a string on ":" yields at least one segment
SessionKeys == UNION {KeysOfLen(n) : n \in 1..MaxKeyLen}

\* sessionKey starts with "tenant:X:" for some X
hasTenantPrefix(sessionKey) == Len(sessionKey) >= 3 /\ sessionKey[1] = "tenant"

ScopeOk(sessionKey) == [ok |-> TRUE, sessionKey |-> sessionKey, error |-> ""]
ScopeError(message) == [ok |-> FALSE, sessionKey |-> <<>>, error |-> message]

\* scopeSessionKeyToTenant({sessionKey, tenantId}); tenantId None: not given
scopeSessionKeyToTenantAlwaysPrefixes(sessionKey, tenantId) ==
    IF tenantId = None THEN ScopeOk(sessionKey)
    ELSE ScopeOk(<<"tenant", tenantId>> \o sessionKey)
scopeSessionKeyToTenant(sessionKey, tenantId) ==
    IF tenantId = None THEN ScopeOk(sessionKey)
    ELSE IF hasTenantPrefix(sessionKey)
         THEN IF sessionKey[2] = tenantId
              THEN ScopeOk(sessionKey)
              ELSE ScopeError("does not match authenticated tenant")
         ELSE ScopeOk(<<"tenant", tenantId>> \o sessionKey)

\* one call of scopeSessionKeyToTenant on the drawn key and tenant id
ScopeKey ==
    /\ last.op = "key"
    /\ last' = [op |-> "scope", result |-> scopeSessionKeyToTenant(keyIn.sessionKey, keyIn.tenantId)]
    /\ UNCHANGED <<regVars, conns, storeVars, termVars, now, effects, pureVars>>

\* a second call, on the key the first call returned
ScopeAgain ==
    /\ last.op = "scope"
    /\ last.result.ok
    /\ last' = [op |-> "rescope", first |-> last.result,
                result |-> scopeSessionKeyToTenant(last.result.sessionKey, keyIn.tenantId)]
    /\ UNCHANGED <<regVars, conns, storeVars, termVars, now, effects, pureVars>>

\* Tenant session keys: src/routing/session-key.ts.  A key is the sequence of
\* its ":"-separated segments, already trimmed and in lower case.

\* parseAgentSessionKey (sessions/session-key-utils): an agent session key is
\* agent:{agentId}:{rest}; Nil when the key is not one
parseAgentSessionKey(key) ==
    IF /\ Len(key) >= 3
       /\ key[1] = "agent"
       /\ key[2] # ""
       /\ \E i \in 3..Len(key) : key[i] # ""
    THEN [agentId |-> key[2], rest |-> SubSeq(key, 3, Len(key))]
    ELSE Nil

\* sessionKey.startsWith(TENANT_KEY_PREFIX), the prefix being "tenant:"
startsWithTenantPrefix(key) == Len(key) >= 2 /\ key[1] = "tenant"

\* parseTenantSessionKey: Nil for null
parseTenantSessionKey(sessionKey) ==
    IF ~startsWithTenantPrefix(sessionKey) THEN Nil
    ELSE IF Len(sessionKey) = 2 THEN Nil
    ELSE LET tenantId == sessionKey[2]
             agentKey == SubSeq(sessionKey, 3, Len(sessionKey))
         IN IF tenantId = "" \/ agentKey = <<"">> THEN Nil
            ELSE IF parseAgentSessionKey(agentKey) = Nil THEN Nil
            ELSE [tenantId |-> tenantId, agentKey |-> agentKey,
                  agentId |-> parseAgentSessionKey(agentKey).agentId,
                  rest |-> parseAgentSessionKey(agentKey).rest]

\* toTenantSessionKey({tenantId, sessionKey})
toTenantSessionKey(tenantId, sessionKey) ==
    IF startsWithTenantPrefix(sessionKey) /\ parseTenantSessionKey(sessionKey) # Nil
    THEN <<"tenant", tenantId>> \o parseTenantSessionKey(sessionKey).agentKey
    ELSE <<"tenant", tenantId>> \o sessionKey

\* the keys handed to toTenantSessionKey: the short keys, and agent session
\* keys plain and prefixed for either tenant
TenantKeyInputs ==
    SessionKeys \cup {<<"agent", "a", "b">>}
                \cup { <<"tenant", t, "agent", "a", "b">> : t \in Tenants }

\* one call of toTenantSessionKey on the drawn key and tenant id
ToTenantKey ==
    /\ last.op = "key"
    /\ last' = [op |-> "toTenant",
                result |-> toTenantSessionKey(keyIn.tenantId, keyIn.sessionKey)]
    /\ UNCHANGED <<regVars, conns, storeVars, termVars, now, effects, pureVars>>

\* a second call with the same tenant id, on the key the first call returned
ToTenantKeyAgain ==
    /\ last.op = "toTenant"
    /\ last' = [op |-> "toTenantAgain", first |-> last.result,
                result |-> toTenantSessionKey(keyIn.tenantId, last.result)]
    /\ UNCHANGED <<regVars, conns, storeVars, termVars, now, effects, pureVars>>


\* An HTTP request: url path, method, the outcome of authorizeGatewayConnect
\* (auth.ok, auth.tenantId), whether the JSON body reads, and the
\* x-openclaw-session-key header (None: absent)
HttpRequests ==
    [url : {"/v1/chat/completions", "/v1/responses", "/v1/models"},
     method : {"POST", "GET"},
     auth : {[ok |-> FALSE, tenantId |-> None]} \cup {[ok |-> TRUE, tenantId |-> t] : t \in TenantParams},
     bodyOk : BOOLEAN,
     sessionKey : SessionKeys \cup {<<>>}]

\* handleGatewayPostJsonEndpoint: "false" (another endpoint), "replied"
\* (405 / 401 / 400 sent), or the body with the authenticated tenant id
handleGatewayPostJsonEndpointDropsTenant(req, pathname) ==
    IF req.url # pathname THEN [kind |-> "false", status |-> 0, tenantId |-> None]
    ELSE IF req.method # "POST" THEN [kind |-> "replied", status |-> 405, tenantId |-> None]
    ELSE IF ~req.auth.ok THEN [kind |-> "replied", status |-> 401, tenantId |-> None]
    ELSE IF ~req.bodyOk THEN [kind |-> "replied", status |-> 400, tenantId |-> None]
    ELSE [kind |-> "body", status |-> 0, tenantId |-> None]
handleGatewayPostJsonEndpoint(req, pathname) ==
    IF req.url # pathname THEN [kind |-> "false", status |-> 0, tenantId |-> None]
    ELSE IF req.method # "POST" THEN [kind |-> "replied", status |-> 405, tenantId |-> None]
    ELSE IF ~req.auth.ok THEN [kind |-> "replied", status |-> 401, tenantId |-> None]
    ELSE IF ~req.bodyOk THEN [kind |-> "replied", status |-> 400, tenantId |-> None]
    ELSE [kind |-> "body", status |-> 0, tenantId |-> req.auth.tenantId]

\* the session key of a request without the header: non-tenant form agent:{id}:{rest}
defaultSessionKey(api) == <<"agent", "main", api>>

\* the part handleOpenAiHttpRequest and handleOpenResponsesHttpRequest share:
\* the endpoint helper, then the session key scoped to the tenant, then the
\* agent runner (agentCommand) with the scoped key, or 403 forbidden
HandleHttp(op, pathname, api) ==
    LET handled  == handleGatewayPostJsonEndpoint(keyIn, pathname)
        supplied == IF keyIn.sessionKey = <<>> THEN defaultSessionKey(api) ELSE keyIn.sessionKey
        scoped   == scopeSessionKeyToTenant(supplied, handled.tenantId)
    IN /\ last.op = "http"
       /\ IF handled.kind = "false"
          THEN /\ last' = [op |-> op, handled |-> FALSE, status |-> 0, error |-> ""]
               /\ runner' = <<>>
          ELSE IF handled.kind = "replied"
          THEN /\ last' = [op |-> op, handled |-> TRUE, status |-> handled.status, error |-> ""]
               /\ runner' = <<>>
          ELSE IF ~scoped.ok
          THEN /\ last' = [op |-> op, handled |-> TRUE, status |-> 403, error |-> "forbidden"]
               /\ runner' = <<>>
          ELSE /\ last' = [op |-> op, handled |-> TRUE, status |-> 200, error |-> ""]
               /\ runner' = <<scoped.sessionKey>>
       /\ UNCHANGED <<regVars, conns, storeVars, termVars, now, effects, authIn, keyIn>>

handleOpenAiHttpRequest == HandleHttp("openai-http", "/v1/chat/completions", "openai")
handleOpenResponsesHttpRequest == HandleHttp("openresponses-http", "/v1/responses", "openresponses")

----------------------------------------------------------------------------
(* Usage ledger and quotas: src/tenants/usage.ts.  The functions are async: *)
(* between two awaits a call runs alone, at an await other calls may run.   *)
(* A call in flight is a record in `calls` with its position (pc) and its   *)
(* local variables; each action below is the code from one await to the     *)
(* next.  The clock of the ledger specifications counts minutes.  An        *)
(* optional number the code tests with `!== undefined` is -1 when missing;  *)
(* a missing addend or limit the code treats like 0 is written 0.           *)

\* the calls that may be in flight at the same time
Procs == {"p1", "p2"}

\* YYYY-MM strings the clock passes through
Periods == {"2026-01", "2026-02", "2026-03"}
nextPeriod(per) == IF per = "2026-01" THEN "2026-02" ELSE "2026-03"

\* the windows of checkAndRecordRequest: 60 * 1000 ms and 60 * 60 * 1000 ms
ONE_MINUTE == 1
ONE_HOUR   == 60

\* the month changes
MonthTurns ==
    /\ period # "2026-03"
    /\ period' = nextPeriod(period)
    /\ last' = [op |-> "month"]
    /\ effects' = NoEffects
    /\ UNCHANGED <<regVars, conns, cronVars, hostVars, termVars, now, pureVars, usageFile, historyFiles,
                   rateLimitFile, quotas, calls, nCalls, allowedLog, applied>>

createEmptyUsageSnapshot(tenantId) ==
    [tenantId |-> tenantId, period |-> period,
     totalTokens |-> 0, inputTokens |-> 0, outputTokens |-> 0,
     cacheReadTokens |-> 0, cacheWriteTokens |-> 0, totalCostCents |-> 0,
     diskUsageBytes |-> 0, totalSessions |-> 0, activeSessions |-> 0,
     totalMessages |-> 0, totalRequests |-> 0,
     requestsThisMinute |-> 0, requestsThisHour |-> 0,
     sandboxCpuSeconds |-> 0, sandboxPeakMemoryMB |-> 0, updatedAt |-> now]

\* what loadRateLimitState returns when the file cannot be read
emptyRateLimitState == [minuteWindow |-> <<>>, hourWindow |-> <<>>, lastCleanup |-> now]

\* state.minuteWindow.filter((t) => t > oneMinuteAgo), likewise the hour window
cleanedUp(state, t) ==
    [state EXCEPT !.minuteWindow = SelectSeq(@, LAMBDA x : x > t - ONE_MINUTE),
                  !.hourWindow   = SelectSeq(@, LAMBDA x : x > t - ONE_HOUR)]

\* the two tests of checkAndRecordRequest on the cleaned state
overMinuteLimit(state, q) ==
    q.requestsPerMinute # -1 /\ Len(state.minuteWindow) >= q.requestsPerMinute
overHourLimit(state, q) ==
    q.requestsPerHour # -1 /\ Len(state.hourWindow) >= q.requestsPerHour

\* the changes each function makes to the snapshot it loaded
\* (tokenUsageUpdatedNoCache: a total that leaves the cache tokens out)
tokenUsageUpdatedNoCache(snapshot, tokens, costCents) ==
    LET s == [snapshot EXCEPT !.inputTokens      = @ + tokens.input,
                              !.outputTokens     = @ + tokens.output,
                              !.cacheReadTokens  = @ + tokens.cacheRead,
                              !.cacheWriteTokens = @ + tokens.cacheWrite]
    IN [s EXCEPT !.totalTokens = s.inputTokens + s.outputTokens,
                 !.totalCostCents = @ + costCents,
                 !.totalMessages = @ + 1]
tokenUsageUpdated(snapshot, tokens, costCents) ==
    LET s == [snapshot EXCEPT !.inputTokens      = @ + tokens.input,
                              !.outputTokens     = @ + tokens.output,
                              !.cacheReadTokens  = @ + tokens.cacheRead,
                              !.cacheWriteTokens = @ + tokens.cacheWrite]
    IN [s EXCEPT !.totalTokens = s.inputTokens + s.outputTokens
                                   + s.cacheReadTokens + s.cacheWriteTokens,
                 !.totalCostCents = @ + costCents,
                 !.totalMessages = @ + 1]

sessionCountUpdated(snapshot, delta) ==
    [snapshot EXCEPT !.totalSessions = @ + delta.total,
                     !.activeSessions = Max(0, @ + delta.active)]

sandboxUsageUpdated(snapshot, resources) ==
    [snapshot EXCEPT !.sandboxCpuSeconds = @ + resources.cpuSeconds,
                     !.sandboxPeakMemoryMB = Max(@, resources.peakMemoryMB)]

requestRecorded(snapshot, state) ==
    [snapshot EXCEPT !.totalRequests = @ + 1,
                     !.requestsThisMinute = Len(state.minuteWindow),
                     !.requestsThisHour = Len(state.hourWindow)]

\* `quotas.limit ? ... : false`: the test takes a limit that is undefined (-1)
\* and a limit of 0 alike
configured(limit) == limit \notin {-1, 0}

\* getTenantQuotaStatus: the hard limits (a limit of 0 or none is no limit)
isOverTokenLimit(q, usage) ==
    configured(q.monthlyTokenLimit) /\ usage.totalTokens >= q.monthlyTokenLimit
isOverCostLimit(q, usage) ==
    configured(q.monthlyCostLimitCents) /\ usage.totalCostCents >= q.monthlyCostLimitCents
isOverDiskLimit(q, usage) ==
    configured(q.diskSpaceLimitBytes) /\ usage.diskUsageBytes >= q.diskSpaceLimitBytes
isAtSoftLimit(q, usage) ==
    \/ configured(q.monthlyTokenSoftLimit) /\ usage.totalTokens >= q.monthlyTokenSoftLimit
    \/ configured(q.monthlyCostSoftLimitCents)
          /\ usage.totalCostCents >= q.monthlyCostSoftLimitCents

QuotaResult(allowed, reason, message, warning) ==
    [allowed |-> allowed, reason |-> reason, message |-> message, warning |-> warning]

\* checkQuotaBeforeRequest after the rate check has allowed the request
\* (quotaDecisionDiskFirst: the disk test moved to the front)
quotaDecisionDiskFirst(q, usage) ==
    IF isOverDiskLimit(q, usage)
    THEN QuotaResult(FALSE, "disk_full", "Disk space limit exceeded", FALSE)
    ELSE IF isOverTokenLimit(q, usage)
    THEN QuotaResult(FALSE, "quota_exceeded", "Monthly token quota exceeded", FALSE)
    ELSE IF isOverCostLimit(q, usage)
    THEN QuotaResult(FALSE, "quota_exceeded", "Monthly cost limit exceeded", FALSE)
    ELSE IF q.maxConcurrentSessions # -1 /\ usage.activeSessions >= q.maxConcurrentSessions
    THEN QuotaResult(FALSE, "sessions_exceeded", "Maximum concurrent sessions reached", FALSE)
    ELSE QuotaResult(TRUE, None, None, isAtSoftLimit(q, usage))
quotaDecision(q, usage) ==
    IF isOverTokenLimit(q, usage)
    THEN QuotaResult(FALSE, "quota_exceeded", "Monthly token quota exceeded", FALSE)
    ELSE IF isOverCostLimit(q, usage)
    THEN QuotaResult(FALSE, "quota_exceeded", "Monthly cost limit exceeded", FALSE)
    ELSE IF isOverDiskLimit(q, usage)
    THEN QuotaResult(FALSE, "disk_full", "Disk space limit exceeded", FALSE)
    ELSE IF q.maxConcurrentSessions # -1 /\ usage.activeSessions >= q.maxConcurrentSessions
    THEN QuotaResult(FALSE, "sessions_exceeded", "Maximum concurrent sessions reached", FALSE)
    ELSE QuotaResult(TRUE, None, None, isAtSoftLimit(q, usage))

\* a call in flight.  fn: the exported function called; stage: what the call
\* is doing ("update": one of the update functions, "record":
\* checkAndRecordRequest, "status": getTenantQuotaStatus); at: the `now` of
\* checkAndRecordRequest; currentPeriod: the local of loadTenantUsage;
\* seen: the lengths of the two windows when the rate check tested them
Frame(fn, tenantId, args, stage, pc) ==
    [fn |-> fn, tenantId |-> tenantId, args |-> args, stage |-> stage, pc |-> pc,
     at |-> now, currentPeriod |-> period, state |-> Nil, seen |-> Nil, snapshot |-> Nil]

Awaiting(p, c) == [op |-> "await", proc |-> p, fn |-> c.fn]
Returned(p, c, result) ==
    [op |-> c.fn, proc |-> p, tenantId |-> c.tenantId, result |-> result]

NoHistory == <<allowedLog, applied>>

\* a caller invokes one of the update functions: runs up to the readFile of loadTenantUsage
CallUpdate(p, fn, tenantId, args) ==
    /\ calls[p] = Nil
    /\ nCalls < MaxCalls
    /\ nCalls' = nCalls + 1
    /\ calls' = [calls EXCEPT ![p] = Frame(fn, tenantId, args, "update", "loadTenantUsage")]
    /\ last' = [op |-> "call", proc |-> p, fn |-> fn]
    /\ effects' = NoEffects
    /\ UNCHANGED <<regVars, conns, cronVars, hostVars, termVars, now, pureVars, usageFile, historyFiles,
                   rateLimitFile, quotas, period, NoHistory>>

\* a caller invokes checkAndRecordRequest or checkQuotaBeforeRequest: runs up
\* to the readFile of loadRateLimitState
CallCheck(p, fn, tenantId) ==
    /\ calls[p] = Nil
    /\ nCalls < MaxCalls
    /\ nCalls' = nCalls + 1
    /\ calls' = [calls EXCEPT ![p] = Frame(fn, tenantId, quotas, "record", "loadRateLimitState")]
    /\ last' = [op |-> "call", proc |-> p, fn |-> fn]
    /\ effects' = NoEffects
    /\ UNCHANGED <<regVars, conns, cronVars, hostVars, termVars, now, pureVars, usageFile, historyFiles,
                   rateLimitFile, quotas, period, NoHistory>>

\* checkAndRecordRequest from the file read to its return or to the writeFile
\* of saveRateLimitState
loadRateLimitState(p) ==
    LET c     == calls[p]
        file  == rateLimitFile[c.tenantId]
        state == cleanedUp(IF file = Nil THEN emptyRateLimitState ELSE file, c.at)
        seen  == [minute |-> Len(state.minuteWindow), hour |-> Len(state.hourWindow)]
    IN /\ c # Nil
       /\ c.pc = "loadRateLimitState"
       /\ IF overMinuteLimit(state, c.args) \/ overHourLimit(state, c.args)
          THEN LET reason == IF overMinuteLimit(state, c.args)
                             THEN "Rate limit exceeded (per minute)"
                             ELSE "Rate limit exceeded (per hour)"
                   result == IF c.fn = "checkAndRecordRequest"
                             THEN [allowed |-> FALSE, reason |-> reason]
                             ELSE QuotaResult(FALSE, "rate_limited", reason, FALSE)
               IN /\ calls' = [calls EXCEPT ![p] = Nil]
                  /\ last' = Returned(p, c, result) @@ [seen |-> seen]
          ELSE /\ calls' = [calls EXCEPT ![p] =
                     [c EXCEPT !.pc = "saveRateLimitState",
                               !.seen = seen,
                               !.state = [minuteWindow |-> Append(state.minuteWindow, c.at),
                                          hourWindow   |-> Append(state.hourWindow, c.at),
                                          lastCleanup  |-> c.at]]]
               /\ last' = Awaiting(p, c)
       /\ effects' = NoEffects
       /\ UNCHANGED <<regVars, conns, cronVars, hostVars, termVars, now, pureVars, usageFile, historyFiles,
                      rateLimitFile, quotas, period, nCalls, NoHistory>>

\* the writeFile of saveRateLimitState, up to the readFile of loadTenantUsage
saveRateLimitState(p) ==
    LET c == calls[p]
    IN /\ c # Nil
       /\ c.pc = "saveRateLimitState"
       /\ rateLimitFile' = [rateLimitFile EXCEPT ![c.tenantId] = c.state]
       /\ calls' = [calls EXCEPT ![p] = [c EXCEPT !.pc = "loadTenantUsage",
                                                  !.currentPeriod = period]]
       /\ last' = Awaiting(p, c)
       /\ effects' = NoEffects
       /\ UNCHANGED <<regVars, conns, cronVars, hostVars, termVars, now, pureVars, usageFile, historyFiles,
                      quotas, period, nCalls, NoHistory>>

\* the caller's code after loadTenantUsage has returned `snapshot`: the update
\* functions change the snapshot and go on to save it; checkQuotaBeforeRequest
\* decides on the status and returns
afterLoad(p, c, snapshot) ==
    IF c.stage = "status"
    THEN /\ calls' = [calls EXCEPT ![p] = Nil]
         /\ last' = Returned(p, c, quotaDecision(c.args, snapshot))
                       @@ [usage |-> snapshot, seen |-> c.seen]
    ELSE /\ calls' = [calls EXCEPT ![p] =
               [c EXCEPT !.pc = "saveTenantUsage",
                         !.snapshot =
                            CASE c.stage = "record" -> requestRecorded(snapshot, c.state)
                              [] c.fn = "updateTokenUsage" ->
                                    tokenUsageUpdated(snapshot, c.args.tokens, c.args.costCents)
                              [] c.fn = "updateSessionCount" ->
                                    sessionCountUpdated(snapshot, c.args)
                              [] c.fn = "updateSandboxUsage" ->
                                    sandboxUsageUpdated(snapshot, c.args)
                              [] OTHER -> [snapshot EXCEPT !.diskUsageBytes = c.args.totalBytes]]]
         /\ last' = Awaiting(p, c)

\* loadTenantUsage from its readFile: a missing file gives an empty snapshot,
\* a snapshot of another period is archived first, one of this period is returned
loadTenantUsage(p) ==
    LET c    == calls[p]
        file == usageFile[c.tenantId]
    IN /\ c # Nil
       /\ c.pc = "loadTenantUsage"
       /\ IF file = Nil
          THEN afterLoad(p, c, createEmptyUsageSnapshot(c.tenantId))
          ELSE IF file.period # c.currentPeriod
          THEN /\ calls' = [calls EXCEPT ![p] = [c EXCEPT !.pc = "archiveUsageSnapshot",
                                                         !.snapshot = file]]
               /\ last' = Awaiting(p, c)
          ELSE afterLoad(p, c, file)
       /\ effects' = NoEffects
       /\ UNCHANGED <<regVars, conns, cronVars, hostVars, termVars, now, pureVars, usageFile, historyFiles,
                      rateLimitFile, quotas, period, nCalls, NoHistory>>

\* the writeFile of archiveUsageSnapshot; loadTenantUsage then returns a
\* fresh snapshot for the new period
\* (archiveUsageSnapshotUnderCurrent: the archive filed under the current month)
archiveUsageSnapshotUnderCurrent(p) ==
    LET c == calls[p]
    IN /\ c # Nil
       /\ c.pc = "archiveUsageSnapshot"
       /\ historyFiles' = [historyFiles EXCEPT ![c.tenantId][period] = c.snapshot]
       /\ afterLoad(p, c, createEmptyUsageSnapshot(c.tenantId))
       /\ effects' = NoEffects
       /\ UNCHANGED <<regVars, conns, cronVars, hostVars, termVars, now, pureVars, usageFile,
                      rateLimitFile, quotas, period, nCalls, NoHistory>>
archiveUsageSnapshot(p) ==
    LET c == calls[p]
    IN /\ c # Nil
       /\ c.pc = "archiveUsageSnapshot"
       /\ historyFiles' = [historyFiles EXCEPT ![c.tenantId][c.snapshot.period] = c.snapshot]
       /\ afterLoad(p, c, createEmptyUsageSnapshot(c.tenantId))
       /\ effects' = NoEffects
       /\ UNCHANGED <<regVars, conns, cronVars, hostVars, termVars, now, pureVars, usageFile,
                      rateLimitFile, quotas, period, nCalls, NoHistory>>

\* the sums of the updates that have returned
appliedAfter(c) ==
    CASE c.fn = "updateTokenUsage" ->
            [applied EXCEPT !.inputTokens = @ + c.args.tokens.input,
                            !.totalCostCents = @ + c.args.costCents,
                            !.totalMessages = @ + 1]
      [] c.fn = "updateSessionCount" -> [applied EXCEPT !.totalSessions = @ + c.args.total]
      [] c.fn = "updateSandboxUsage" ->
            [applied EXCEPT !.sandboxCpuSeconds = @ + c.args.cpuSeconds]
      [] OTHER -> applied

\* the writeFile of saveTenantUsage and the return of the function; after
\* its rate check checkQuotaBeforeRequest goes on to getTenantQuotaStatus
saveTenantUsage(p) ==
    LET c == calls[p]
    IN /\ c # Nil
       /\ c.pc = "saveTenantUsage"
       /\ usageFile' = [usageFile EXCEPT ![c.tenantId] = [c.snapshot EXCEPT !.updatedAt = now]]
       /\ IF c.fn = "checkQuotaBeforeRequest"
          THEN /\ calls' = [calls EXCEPT ![p] = [c EXCEPT !.stage = "status",
                                                         !.pc = "loadTenantUsage",
                                                         !.currentPeriod = period]]
               /\ last' = Awaiting(p, c)
          ELSE /\ calls' = [calls EXCEPT ![p] = Nil]
               /\ last' = Returned(p, c, IF c.fn = "checkAndRecordRequest"
                                         THEN [allowed |-> TRUE, reason |-> None]
                                         ELSE Nil)
       /\ allowedLog' = IF c.stage = "record" THEN Append(allowedLog, c.at) ELSE allowedLog
       /\ applied' = appliedAfter(c)
       /\ effects' = NoEffects
       /\ UNCHANGED <<regVars, conns, cronVars, hostVars, termVars, now, pureVars, historyFiles,
                      rateLimitFile, quotas, period, nCalls>>

NoQuotas ==
    [requestsPerMinute |-> -1, requestsPerHour |-> -1, monthlyTokenLimit |-> 0,
     monthlyTokenSoftLimit |-> 0, monthlyCostLimitCents |-> 0, monthlyCostSoftLimitCents |-> 0,
     diskSpaceLimitBytes |-> 0, maxConcurrentSessions |-> -1]

NothingApplied ==
    [inputTokens |-> 0, totalCostCents |-> 0, totalMessages |-> 0,
     totalSessions |-> 0, sandboxCpuSeconds |-> 0]

\* no usage file of any tenant exists, no call is in flight
LedgerInit ==
    /\ usageFile = [t \in Tenants |-> Nil]
    /\ historyFiles = [t \in Tenants |-> [per \in Periods |-> Nil]]
    /\ rateLimitFile = [t \in Tenants |-> Nil]
    /\ period = "2026-01"
    /\ calls = [p \in Procs |-> Nil]
    /\ nCalls = 0
    /\ allowedLog = <<>>
    /\ applied = NothingApplied

----------------------------------------------------------------------------
(* Scheduler supervisor: src/cron/multi-tenant-manager.ts.  A CronService   *)
(* instance is a record in `services` (its identity: its index); start() is *)
(* asynchronous: "starting" from the call to its completion.                *)

\* new CronService(...)
CronService(tenantId) == [tenantId |-> tenantId, state |-> "created", starts |-> 0]

\* what loadCronStore finds at a tenant's store path
JobStores == {"jobs", "empty", "unreadable"}

\* listTenants(): Object.keys(registry.tenants)
listTenants(reg) == { t \in Tenants : reg[t] # Nil }

\* the test of startAll on getTenant(tenantId)
\* (skipsTenantMissingOnly: a scan that does not look at `disabled`)
skipsTenantMissingOnly(tenant) == tenant = Nil
skipsTenant(tenant) == tenant = Nil \/ tenant.disabled

CronFrame(fn, tenantId, service, pc, pending) ==
    [fn |-> fn, tenantId |-> tenantId, service |-> service, pc |-> pc, pending |-> pending]

\* createTenantCronService, tenantServices.set and, when cron is enabled, the
\* call of service.start()
constructed(tenantId) ==
    Append(services, IF cronEnabled
                     THEN [CronService(tenantId) EXCEPT !.state = "starting", !.starts = 1]
                     ELSE CronService(tenantId))

EnsureReturned(p, tenantId, service) ==
    [op |-> "ensureTenantService", proc |-> p, tenantId |-> tenantId, service |-> service]

\* ensureTenantService(tenantId) up to its return or to the await of service.start()
ensureTenantService(p, tenantId) ==
    /\ cronCalls[p] = Nil
    /\ IF tenantServices[tenantId] # 0
       THEN /\ last' = EnsureReturned(p, tenantId, tenantServices[tenantId])
            /\ UNCHANGED <<services, tenantServices, cronCalls>>
       ELSE /\ Len(services) < MaxServices
            /\ services' = constructed(tenantId)
            /\ tenantServices' = [tenantServices EXCEPT ![tenantId] = Len(services) + 1]
            /\ IF cronEnabled
               THEN /\ cronCalls' = [cronCalls EXCEPT ![p] =
                          CronFrame("ensureTenantService", tenantId, Len(services) + 1,
                                    "service.start", {})]
                    /\ last' = [op |-> "await", proc |-> p, fn |-> "ensureTenantService"]
               ELSE /\ last' = EnsureReturned(p, tenantId, Len(services) + 1)
                    /\ UNCHANGED cronCalls
    /\ effects' = NoEffects
    /\ UNCHANGED <<regVars, conns, ledgerVars, hostVars, termVars, now, pureVars,
                   globalService, cronEnabled, jobStore>>

\* the start() a call awaits has completed: ensureTenantService returns the
\* service, startAll goes on with its scan
serviceStarted(p) ==
    LET c == cronCalls[p]
    IN /\ c # Nil
       /\ c.pc = "service.start"
       /\ services' = [services EXCEPT ![c.service].state =
                                         IF @ = "starting" THEN "started" ELSE @]
       /\ IF c.fn = "ensureTenantService"
          THEN /\ cronCalls' = [cronCalls EXCEPT ![p] = Nil]
               /\ last' = EnsureReturned(p, c.tenantId, c.service)
          ELSE /\ cronCalls' = [cronCalls EXCEPT ![p] = [c EXCEPT !.pc = "scan"]]
               /\ last' = [op |-> "await", proc |-> p, fn |-> c.fn]
       /\ effects' = NoEffects
       /\ UNCHANGED <<regVars, conns, ledgerVars, hostVars, termVars, now, pureVars,
                      tenantServices, globalService, cronEnabled, jobStore>>

\* startAll() up to the await of globalService.start() or, with cron
\* disabled, up to the first tenant of listTenants()
startAll(p) ==
    /\ cronCalls[p] = Nil
    /\ IF cronEnabled
       THEN /\ globalService' = [globalService EXCEPT !.state = "starting", !.starts = @ + 1]
            /\ cronCalls' = [cronCalls EXCEPT ![p] =
                  CronFrame("startAll", None, 0, "globalService.start", {})]
       ELSE /\ cronCalls' = [cronCalls EXCEPT ![p] =
                  CronFrame("startAll", None, 0, "scan", listTenants(registry))]
            /\ UNCHANGED globalService
    /\ last' = [op |-> "await", proc |-> p, fn |-> "startAll"]
    /\ effects' = NoEffects
    /\ UNCHANGED <<regVars, conns, ledgerVars, hostVars, termVars, now, pureVars,
                   services, tenantServices, cronEnabled, jobStore>>

\* globalService.start() has completed: startAll lists the tenants
globalStarted(p) ==
    LET c == cronCalls[p]
    IN /\ c # Nil
       /\ c.pc = "globalService.start"
       /\ globalService' = [globalService EXCEPT !.state =
                                         IF @ = "starting" THEN "started" ELSE @]
       /\ cronCalls' = [cronCalls EXCEPT ![p] =
             [c EXCEPT !.pc = "scan", !.pending = listTenants(registry)]]
       /\ last' = [op |-> "await", proc |-> p, fn |-> c.fn]
       /\ effects' = NoEffects
       /\ UNCHANGED <<regVars, conns, ledgerVars, hostVars, termVars, now, pureVars,
                      services, tenantServices, cronEnabled, jobStore>>

\* one turn of the loop of startAll up to the await of tenantHasCronJobs, or
\* the end of the loop and the return of startAll
scanTenant(p) ==
    LET c == cronCalls[p]
    IN /\ c # Nil
       /\ c.pc = "scan"
       /\ IF c.pending = {}
          THEN /\ cronCalls' = [cronCalls EXCEPT ![p] = Nil]
               /\ last' = [op |-> "startAll", proc |-> p]
          ELSE \E t \in c.pending :
                 /\ cronCalls' = [cronCalls EXCEPT ![p] =
                       [c EXCEPT !.pending = @ \ {t},
                                 !.tenantId = t,
                                 !.pc = IF skipsTenant(getTenant(registry, t))
                                        THEN "scan" ELSE "tenantHasCronJobs"]]
                 /\ last' = [op |-> "await", proc |-> p, fn |-> c.fn]
       /\ effects' = NoEffects
       /\ UNCHANGED <<regVars, conns, ledgerVars, hostVars, termVars, now, pureVars,
                      services, tenantServices, globalService, cronEnabled, jobStore>>

\* tenantHasCronJobs has read the store: with jobs the scheduler is
\* constructed, put in the map and, when cron is enabled, started
tenantHasCronJobs(p) ==
    LET c == cronCalls[p]
    IN /\ c # Nil
       /\ c.pc = "tenantHasCronJobs"
       /\ IF jobStore[c.tenantId] = "jobs"
          THEN /\ Len(services) < MaxServices
               /\ services' = constructed(c.tenantId)
               /\ tenantServices' = [tenantServices EXCEPT ![c.tenantId] = Len(services) + 1]
               /\ cronCalls' = [cronCalls EXCEPT ![p] =
                     [c EXCEPT !.service = Len(services) + 1,
                               !.pc = IF cronEnabled THEN "service.start" ELSE "scan"]]
          ELSE /\ cronCalls' = [cronCalls EXCEPT ![p] = [c EXCEPT !.pc = "scan"]]
               /\ UNCHANGED <<services, tenantServices>>
       /\ last' = [op |-> "await", proc |-> p, fn |-> c.fn]
       /\ effects' = NoEffects
       /\ UNCHANGED <<regVars, conns, ledgerVars, hostVars, termVars, now, pureVars,
                      globalService, cronEnabled, jobStore>>

\* service.stop()
stopped(service) == [service EXCEPT !.state = "stopped"]

\* a scheduler whose start() was called and whose stop() was not called since
running(service) == service.state \in {"starting", "started"}

\* removeTenantService(tenantId): stops the service of the map and deletes it
removeTenantService(tenantId) ==
    /\ IF tenantServices[tenantId] # 0
       THEN /\ services' = [services EXCEPT ![tenantServices[tenantId]] = stopped(@)]
            /\ tenantServices' = [tenantServices EXCEPT ![tenantId] = 0]
       ELSE UNCHANGED <<services, tenantServices>>
    /\ last' = [op |-> "removeTenantService", tenantId |-> tenantId]
    /\ effects' = NoEffects
    /\ UNCHANGED <<regVars, conns, ledgerVars, hostVars, termVars, now, pureVars,
                   globalService, cronEnabled, jobStore, cronCalls>>

\* the services stopAll stops: those the map holds
stoppedByStopAll == { tenantServices[t] : t \in Tenants } \ {0}

\* stopAll(): stops the global service and the services of the map, clears the map
stopAll ==
    /\ globalService' = stopped(globalService)
    /\ services' = [i \in 1..Len(services) |->
                       IF i \in stoppedByStopAll THEN stopped(services[i]) ELSE services[i]]
    /\ tenantServices' = [t \in Tenants |-> 0]
    /\ last' = [op |-> "stopAll"]
    /\ effects' = NoEffects
    /\ UNCHANGED <<regVars, conns, ledgerVars, hostVars, termVars, now, pureVars,
                   cronEnabled, jobStore, cronCalls>>

\* context.broadcast(event, payload, {dropIfSlow}): fans out to all connections;
\* with dropIfSlow the send to a connection whose write buffer is full is discarded.
\* The connections the event is delivered to:
broadcast(dropIfSlow, slow) ==
    { c \in ConnIds : conns[c] # Nil /\ ~(dropIfSlow /\ c \in slow) }

\* what a CronService reports to onEvent
CronEventActions == {"added", "started", "finished"}

\* the onEvent callback createTenantCronService gives the tenant's CronService:
\* the event is broadcast (recorded in `last` with the connections it reached),
\* a finished run is appended to the run log
onEvent(i, action, slow) ==
    /\ i \in 1..Len(services)
    /\ last' = [op |-> "cron.onEvent", tenantId |-> services[i].tenantId,
                event |-> <<"tenant", services[i].tenantId, "cron">>,
                payload |-> action, dropIfSlow |-> TRUE,
                connIds |-> broadcast(TRUE, slow),
                runLog |-> action = "finished"]
    /\ effects' = NoEffects
    /\ UNCHANGED <<regVars, conns, storeVars, termVars, now, pureVars>>

----------------------------------------------------------------------------
(* The cron handlers: src/gateway/server-methods/cron.ts, as requests the   *)
(* dispatcher authorizes and hands to the handler.  valid: the params pass  *)
(* the validation of the method.  cronJobs[d] are the ids of the jobs in a  *)
(* store file; a handler acts on the store of the caller's tenant, or, for  *)
(* a caller without tenant, on the gateway's own scheduler (context.cron).  *)
(* `effects` logs what a handler touched: <<what, tenant or None>>.         *)

\* the job ids randomUUID() gives; "j0" is a job added before the gateway started
JobIds == {"j0", "j1", "j2"}

\* const tenantId = getTenantId(opts); if (tenantId) { the tenant's store }
\* else { context.cron }
\* (cronStoreOfGlobal: every caller is served from the global scheduler)
cronStoreOfGlobal(client) == None
cronStoreOf(client) == getTenantId(client)

\* what a handler touches in a store: the tenant helpers, or context.cron
touched(store, what) == IF store = None THEN {<<"context.cron", None>>} ELSE {<<what, store>>}

\* saveCronStore(storePath, store): the file holds the jobs given
saveCronStore(store, jobs) ==
    /\ cronJobs' = [cronJobs EXCEPT ![store] = jobs]
    /\ jobStore' = IF store = None THEN jobStore
                   ELSE [jobStore EXCEPT ![store] = IF jobs = {} THEN "empty" ELSE "jobs"]

CronAddResponse(c, tenantId, ok, code) ==
    [op |-> "cron.add", conn |-> c, tenantId |-> tenantId, ok |-> ok, code |-> code]

CronResponse(op, c, tenantId, ok, code, jobId) ==
    [op |-> op, conn |-> c, tenantId |-> tenantId, ok |-> ok, code |-> code, jobId |-> jobId]

\* cron.add; id: the id randomUUID() gives the job
CronAdd(c, valid, id) ==
    LET client   == conns[c]
        tenantId == getTenantId(client)
        store    == cronStoreOf(client)
    IN /\ client # Nil
       /\ \A d \in DOMAIN cronJobs : id \notin cronJobs[d]
       /\ IF authorizeGatewayMethod("cron.add", client) # Allowed \/ ~valid
          THEN /\ last' = CronAddResponse(c, tenantId, FALSE, INVALID_REQUEST) @@ [jobId |-> id]
               /\ effects' = NoEffects
               /\ UNCHANGED <<jobStore, cronJobs>>
          ELSE /\ saveCronStore(store, cronJobs[store] \cup {id})
               /\ effects' = touched(store, "loadCronStore") \cup touched(store, "saveCronStore")
               /\ last' = CronAddResponse(c, tenantId, TRUE, OK) @@ [jobId |-> id]
       /\ UNCHANGED <<regVars, conns, ledgerVars, controlPlaneToken, pairing, overlayFile,
                      fileSystem, s3Objects, termVars, now, pureVars,
                      services, tenantServices, globalService, cronEnabled, cronCalls>>

CronMethods ==
    {"wake", "cron.list", "cron.status", "cron.update", "cron.remove", "cron.run", "cron.runs"}

\* ensureTenantService(tenantId) with the start it awaits, as cron.run calls it
ensured(tenantId) ==
    IF tenantServices[tenantId] # 0 THEN services
    ELSE [constructed(tenantId) EXCEPT ![Len(services) + 1].state =
                                          IF @ = "starting" THEN "started" ELSE @]

\* wake, cron.list, cron.status, cron.update, cron.remove, cron.run, cron.runs.
\* jobId None: the params name no job.
CronCall(c, method, valid, jobId) ==
    LET client   == conns[c]
        tenantId == getTenantId(client)
        store    == cronStoreOf(client)
        jobs     == cronJobs[store]
        refused  == /\ last' = CronResponse(method, c, tenantId, FALSE, INVALID_REQUEST, jobId)
                    /\ effects' = NoEffects
                    /\ UNCHANGED <<jobStore, cronJobs, services, tenantServices>>
        reads(what) == /\ last' = CronResponse(method, c, tenantId, TRUE, OK, jobId)
                       /\ effects' = touched(store, what)
                       /\ UNCHANGED <<jobStore, cronJobs, services, tenantServices>>
    IN /\ client # Nil
       /\ method \in CronMethods
       /\ IF authorizeGatewayMethod(method, client) # Allowed THEN refused
          ELSE IF method = "wake"
          THEN IF tenantId # None \/ ~valid THEN refused ELSE reads("wake")
          ELSE IF ~valid THEN refused
          ELSE IF method = "cron.list" THEN reads("loadCronStore")
          ELSE IF method = "cron.status"
          THEN IF store # None /\ tenantServices[store] = 0 THEN reads("loadCronStore")
               ELSE reads("service.status")
          ELSE IF jobId = None THEN refused
          ELSE IF method = "cron.runs" THEN reads("readCronRunLogEntries")
          ELSE IF method = "cron.update"
          THEN IF store # None /\ jobId \notin jobs
               THEN /\ last' = CronResponse(method, c, tenantId, FALSE, INVALID_REQUEST, jobId)
                    /\ effects' = touched(store, "loadCronStore")
                    /\ UNCHANGED <<jobStore, cronJobs, services, tenantServices>>
               ELSE /\ last' = CronResponse(method, c, tenantId, TRUE, OK, jobId)
                    /\ effects' = touched(store, "loadCronStore") \cup touched(store, "saveCronStore")
                    /\ UNCHANGED <<jobStore, cronJobs, services, tenantServices>>
          ELSE IF method = "cron.remove"
          THEN /\ last' = CronResponse(method, c, tenantId, TRUE, OK, jobId)
               /\ IF jobId \in jobs
                  THEN /\ saveCronStore(store, jobs \ {jobId})
                       /\ effects' = touched(store, "loadCronStore")
                                        \cup touched(store, "saveCronStore")
                  ELSE /\ effects' = touched(store, "loadCronStore")
                       /\ UNCHANGED <<jobStore, cronJobs>>
               /\ UNCHANGED <<services, tenantServices>>
          ELSE \* cron.run
               IF store # None /\ tenantServices[store] = 0 /\ Len(services) >= MaxServices
               THEN /\ last' = CronResponse(method, c, tenantId, FALSE, UNAVAILABLE, jobId)
                    /\ effects' = NoEffects
                    /\ UNCHANGED <<jobStore, cronJobs, services, tenantServices>>
               ELSE /\ last' = CronResponse(method, c, tenantId, TRUE, OK, jobId)
                    /\ effects' = touched(store, "service.run")
                    /\ IF store # None
                       THEN /\ services' = ensured(store)
                            /\ tenantServices' =
                                  IF tenantServices[store] # 0 THEN tenantServices
                                  ELSE [tenantServices EXCEPT ![store] = Len(services) + 1]
                       ELSE UNCHANGED <<services, tenantServices>>
                    /\ UNCHANGED <<jobStore, cronJobs>>
       /\ UNCHANGED <<regVars, conns, ledgerVars, controlPlaneToken, pairing, overlayFile,
                      fileSystem, s3Objects, termVars, now, pureVars,
                      globalService, cronEnabled, cronCalls>>


----------------------------------------------------------------------------
(* The tenant branches of cron.add, cron.update and cron.remove step by     *)
(* step: the handler awaits loadTenantCronJobs, changes the jobs it was     *)
(* given and awaits saveTenantCronJobs; other handlers run in between.      *)

StoreFrame(method, c, tenantId, loaded, jobId) ==
    [fn |-> method, conn |-> c, tenantId |-> tenantId, pc |-> "save",
     loaded |-> loaded, jobId |-> jobId]

\* the ids of the jobs the handlers in flight are adding
idsInFlight == { cronCalls[p].jobId : p \in { q \in Procs : cronCalls[q] # Nil } }

\* the jobs a handler saves: what it loaded, with its own change
modified(frame) ==
    IF frame.fn = "cron.add" THEN frame.loaded \cup {frame.jobId}
    ELSE IF frame.fn = "cron.remove" THEN frame.loaded \ {frame.jobId}
    ELSE frame.loaded

\* the handler up to the end of its load: it goes on to save, or responds
\* when the job it is to change is not in the store
cronStoreLoaded(p, c, method, jobId) ==
    LET client   == conns[c]
        tenantId == getTenantId(client)
        loaded   == cronJobs[tenantId]
    IN /\ client # Nil
       /\ tenantId # None
       /\ cronCalls[p] = Nil
       /\ method \in {"cron.add", "cron.update", "cron.remove"}
       /\ authorizeGatewayMethod(method, client) = Allowed
       /\ method = "cron.add" =>
             (jobId \notin idsInFlight /\ \A d \in DOMAIN cronJobs : jobId \notin cronJobs[d])
       /\ effects' = touched(tenantId, "loadCronStore")
       /\ IF method # "cron.add" /\ jobId \notin loaded
          THEN /\ last' = CronResponse(method, c, tenantId, method = "cron.remove",
                                       IF method = "cron.remove" THEN OK ELSE INVALID_REQUEST,
                                       jobId)
               /\ UNCHANGED cronCalls
          ELSE /\ last' = [op |-> "await", proc |-> p, fn |-> method]
               /\ cronCalls' = [cronCalls EXCEPT ![p] =
                                   StoreFrame(method, c, tenantId, loaded, jobId)]
       /\ UNCHANGED <<regVars, conns, ledgerVars, hostVars, termVars, now, pureVars,
                      services, tenantServices, globalService, cronEnabled, jobStore>>

\* the save and the response
cronStoreSaved(p) ==
    LET frame == cronCalls[p]
    IN /\ frame # Nil
       /\ frame.pc = "save"
       /\ saveCronStore(frame.tenantId, modified(frame))
       /\ cronCalls' = [cronCalls EXCEPT ![p] = Nil]
       /\ effects' = touched(frame.tenantId, "saveCronStore")
       /\ last' = CronResponse(frame.fn, frame.conn, frame.tenantId, TRUE, OK, frame.jobId)
       /\ UNCHANGED <<regVars, conns, ledgerVars, controlPlaneToken, pairing, overlayFile,
                      fileSystem, s3Objects, termVars, now, pureVars,
                      services, tenantServices, globalService, cronEnabled>>


----------------------------------------------------------------------------
(* Device pairing: src/gateway/server-methods/devices.ts.  pairing[d] is    *)
(* the store under base directory d (a tenant's state directory, None for   *)
(* the gateway's own): the requests with their state.  A request id is a    *)
(* UUID: it names one request ever.                                         *)

RequestIds == {"r1", "r2"}
DeviceIds  == {"d1", "d2"}

\* getBaseDir(opts): the tenant's state directory, undefined without tenant
getBaseDir(client) == getTenantId(client)

PairingRequest(requestId, deviceId, state) ==
    [requestId |-> requestId, deviceId |-> deviceId, state |-> state]

pendingRequest(baseDir, requestId) ==
    { p \in pairing[baseDir] : p.requestId = requestId /\ p.state = "pending" }

\* a device asks to be paired: the request is stored under the base directory
requestDevicePairing(baseDir, requestId, deviceId) ==
    /\ \A d \in DOMAIN pairing : \A p \in pairing[d] : p.requestId # requestId
    /\ pairing' = [pairing EXCEPT ![baseDir] = @ \cup {PairingRequest(requestId, deviceId, "pending")}]
    /\ last' = [op |-> "requestDevicePairing", conn |-> None, ok |-> TRUE, code |-> OK,
                requestId |-> requestId, event |-> None, deviceId |-> deviceId, connIds |-> {}]
    /\ effects' = NoEffects
    /\ UNCHANGED <<regVars, conns, ledgerVars, cronVars, controlPlaneToken, overlayFile,
                   fileSystem, s3Objects, cronJobs, termVars, now, pureVars>>

\* approveDevicePairing / rejectDevicePairing(requestId, baseDir): the pending
\* request of that store is resolved; null when the store has none
resolveDevicePairing(baseDir, requestId, decision) ==
    [pairing EXCEPT ![baseDir] =
        { IF p.requestId = requestId /\ p.state = "pending"
          THEN PairingRequest(p.requestId, p.deviceId, decision) ELSE p : p \in @ }]

\* device.pair.approve and device.pair.reject, as a request the dispatcher
\* authorizes and hands to the handler.  requestId None: invalid params.
DevicePairResolve(c, method, requestId, slow) ==
    LET client   == conns[c]
        auth     == authorizeGatewayMethod(method, client)
        baseDir  == getBaseDir(client)
        found    == pendingRequest(baseDir, requestId)
        decision == IF method = "device.pair.approve" THEN "approved" ELSE "rejected"
        refused(code) == [op |-> method, conn |-> c, ok |-> FALSE, code |-> code,
                          requestId |-> requestId, event |-> None, deviceId |-> None,
                          connIds |-> {}]
    IN /\ client # Nil
       /\ method \in {"device.pair.approve", "device.pair.reject"}
       /\ IF auth # Allowed \/ requestId = None \/ found = {}
          THEN last' = refused(INVALID_REQUEST) /\ UNCHANGED pairing
          ELSE /\ pairing' = resolveDevicePairing(baseDir, requestId, decision)
               /\ last' = [op |-> method, conn |-> c, ok |-> TRUE, code |-> OK,
                           requestId |-> requestId, event |-> "device.pair.resolved",
                           deviceId |-> (CHOOSE p \in found : TRUE).deviceId,
                           connIds |-> broadcast(TRUE, slow)]
       /\ effects' = NoEffects
       /\ UNCHANGED <<regVars, conns, ledgerVars, cronVars, controlPlaneToken, overlayFile,
                      fileSystem, s3Objects, cronJobs, termVars, now, pureVars>>


----------------------------------------------------------------------------
\* the store files as the gateway finds them: the jobs of a tenant whose store
\* holds jobs, and the global store's
JobsInit ==
    cronJobs = [d \in Tenants \cup {None} |->
                   IF d = None THEN {"j0"}
                   ELSE IF jobStore[d] = "jobs" THEN {"j0"} ELSE {}]

\* a manager just created: the global service constructed, no tenant service
CronInit ==
    /\ services = <<>>
    /\ tenantServices = [t \in Tenants |-> 0]
    /\ globalService = CronService(None)
    /\ cronCalls = [p \in Procs |-> Nil]

\* the host as installed: a control-plane secret is configured, nothing is
\* pending, no overlay is written, nothing is extracted
HostInit ==
    /\ controlPlaneToken = <<"s", "k">>
    /\ pairing = [d \in Tenants \cup {None} |-> {}]
    /\ overlayFile = [t \in Tenants |-> Nil]
    /\ fileSystem = {}
    /\ s3Objects = [k \in BackupKeys |-> Nil]

\* cron enabled, no tenant has jobs
StoreInit ==
    /\ LedgerInit
    /\ quotas = NoQuotas
    /\ CronInit
    /\ HostInit
    /\ cronEnabled = TRUE
    /\ jobStore = [t \in Tenants |-> "empty"]
    /\ JobsInit

----------------------------------------------------------------------------
(* Initial state: empty registry, no connection, no terminal *)
Init ==
    /\ registry = [t \in ValidTenantIds |-> Nil]
    /\ nextSecret = 1
    /\ issued = [t \in Tenants |-> <<>>]
    /\ conns = [c \in ConnIds |-> Nil]
    /\ terminalSessions = [id \in TerminalIds |-> Nil]
    /\ pty = [id \in TerminalIds |-> Nil]
    /\ now = 0
    /\ effects = NoEffects
    /\ last = [op |-> "init"]
    /\ authIn = Nil
    /\ keyIn = Nil
    /\ runner = <<>>
    /\ StoreInit

----------------------------------------------------------------------------
(* The registry on its own: create, remove, rotate, update, validate *)
NextRegistry ==
    \/ \E t \in Tenants : RegCreate(t)
    \/ \E t \in Tenants : RegRemove(t)
    \/ \E t \in Tenants : RegRotate(t)
    \/ \E t \in Tenants, d \in {"undefined", "true", "false"} : RegUpdate(t, d)
    \/ \E token \in TokenInputs : Validate(token)

SpecRegistry == Init /\ [][NextRegistry]_vars

----------------------------------------------------------------------------
(* Session-key scoping on its own, and the two HTTP endpoints that use it *)
PureInit(op) ==
    /\ registry = [t \in ValidTenantIds |-> Nil]
    /\ nextSecret = 1
    /\ issued = [t \in Tenants |-> <<>>]
    /\ conns = [c \in ConnIds |-> Nil]
    /\ terminalSessions = [id \in TerminalIds |-> Nil]
    /\ pty = [id \in TerminalIds |-> Nil]
    /\ now = 0
    /\ effects = NoEffects
    /\ last = [op |-> op]
    /\ runner = <<>>
    /\ StoreInit

InitScope ==
    /\ PureInit("key")
    /\ authIn = Nil
    /\ keyIn \in [sessionKey : SessionKeys, tenantId : TenantParams]

SpecScope == InitScope /\ [][ScopeKey \/ ScopeAgain]_vars

InitHttp ==
    /\ PureInit("http")
    /\ authIn = Nil
    /\ keyIn \in HttpRequests

SpecHttp == InitHttp /\ [][handleOpenAiHttpRequest \/ handleOpenResponsesHttpRequest]_vars

----------------------------------------------------------------------------
(* The authorizer on its own: any method, any client *)
InitAuth ==
    /\ PureInit("request")
    /\ authIn \in [method : Methods, client : AuthClients]
    /\ keyIn = Nil

SpecAuth == InitAuth /\ [][Authorize]_vars

----------------------------------------------------------------------------
(* The gateway started on a tenants.json that already holds tenants a and b *)
(* (loadTenantRegistry reads the file written by two earlier createTenant). *)
ProvisionedGateway ==
    /\ registry = createTenant(createTenant([t \in ValidTenantIds |-> Nil], "a", 1), "b", 2)
    /\ nextSecret = 3
    /\ issued = [t \in Tenants |-> buildTenantToken(t, generateToken(IF t = "a" THEN 1 ELSE 2))]
    /\ terminalSessions = [id \in TerminalIds |-> Nil]
    /\ pty = [id \in TerminalIds |-> Nil]
    /\ now = 0
    /\ effects = NoEffects
    /\ last = [op |-> "init"]
    /\ authIn = Nil
    /\ keyIn = Nil
    /\ runner = <<>>

Provisioned == ProvisionedGateway /\ StoreInit

\* four clients have completed the handshake: tenant a and tenant b with the
\* ordinary scopes, tenant b with the admin scope, and an operator (gateway
\* token, no tenant id) with the admin scope
Established ==
    [c \in ConnIds |->
        CASE c = "c1" -> Client(c, "a", "operator", {READ_SCOPE, WRITE_SCOPE})
          [] c = "c2" -> Client(c, "b", "operator", {READ_SCOPE, WRITE_SCOPE})
          [] c = "c3" -> Client(c, "b", "operator", {ADMIN_SCOPE})
          [] OTHER    -> Client(c, None, "operator", {ADMIN_SCOPE})]

InitConnected == Provisioned /\ conns = Established


----------------------------------------------------------------------------
(* Terminals: the established clients using the terminal.* methods *)
\* one terminal is opened; requests name it, no terminal, or an id never issued
NextTerminal ==
    \/ Tick
    \/ \E c \in ConnIds, size \in {<<-1, -1>>, <<600, 2>>}, f \in BOOLEAN :
          TerminalSpawn(c, "t1", size[1], size[2], f)
    \/ \E c \in ConnIds, id \in TerminalParams, len \in {-1, 1}, x \in BOOLEAN :
          TerminalWrite(c, id, len, x)
    \/ \E c \in ConnIds, id \in TerminalParams, size \in {<<-1, 24>>, <<5, 300>>}, x \in BOOLEAN :
          TerminalResize(c, id, size[1], size[2], x)
    \/ \E c \in ConnIds, id \in TerminalParams, x \in BOOLEAN : TerminalClose(c, id, x)
    \/ \E c \in ConnIds : TerminalList(c)
    \/ \E id \in TerminalIds : PtyData(id)
    \/ \E id \in TerminalIds : PtyExit(id)

SpecTerminal == InitConnected /\ [][NextTerminal]_vars



----------------------------------------------------------------------------
(* Tenant management: the established clients using the tenants.* methods *)
NextTenants ==
    \/ \E c \in ConnIds, t \in TenantParams \cup {"Bad!"} : TenantsCreate(c, t)
    \/ \E c \in ConnIds, t \in TenantParams : TenantsGet(c, t)
    \/ \E c \in ConnIds, t \in TenantParams, confirm \in BOOLEAN : TenantsDelete(c, t, confirm)
    \/ \E c \in ConnIds, t \in TenantParams : TenantsRotate(c, t)
    \/ \E c \in ConnIds, t \in TenantParams, d \in {"undefined", "true", "false"} :
          TenantsUpdate(c, t, d)
    \/ \E c \in ConnIds, t \in TenantParams, b, x \in BOOLEAN : TenantsBackup(c, t, b, x)
    \/ \E c \in ConnIds, t \in TenantParams, k \in {<<>>, <<"backups", "a", "1">>},
          b \in BOOLEAN, x \in {"none", "download"}, cim \in {"undefined", "false"} :
             TenantsRestore(c, t, k, b, cim, x, TRUE)
    \/ \E c \in ConnIds, t \in TenantParams, b, x \in BOOLEAN : TenantsBackupsList(c, t, b, x)
    \/ \E c \in ConnIds, t \in TenantParams, r, x \in BOOLEAN : TenantsUsage(c, t, r, x)
    \/ \E c \in ConnIds, t \in TenantParams, x \in BOOLEAN : TenantsQuotaStatus(c, t, x)
    \/ \E c \in ConnIds, t \in TenantParams, x \in BOOLEAN : TenantsUsageHistory(c, t, x)

SpecTenants == InitConnected /\ [][NextTenants]_vars

----------------------------------------------------------------------------
(* Tenant lifecycle: the established clients open terminals while tenants *)
(* are disabled and deleted, over the gateway and over the control plane  *)
NextLifecycle ==
    \/ \E c \in ConnIds, t \in Tenants : TenantsCreate(c, t)
    \/ \E c \in ConnIds, t \in Tenants, confirm \in BOOLEAN : TenantsDelete(c, t, confirm)
    \/ \E c \in ConnIds, t \in Tenants, d \in {"true", "false"} : TenantsUpdate(c, t, d)
    \/ \E t \in Tenants, tokenOk \in BOOLEAN : ControlPlaneDelete(t, tokenOk)
    \/ \E c \in ConnIds, id \in TerminalIds, f \in BOOLEAN : TerminalSpawn(c, id, -1, -1, f)
    \/ \E c \in ConnIds : TerminalList(c)
    \/ \E id \in TerminalIds : PtyExit(id)

SpecLifecycle == InitConnected /\ [][NextLifecycle]_vars

----------------------------------------------------------------------------
(* Idle terminals: the tenants open terminals and use them or leave them  *)
(* alone while minutes pass and the cleanup interval fires                *)
NextReaper ==
    \/ \E d \in {1, TERMINAL_IDLE_TIMEOUT_MS} : Wait(d, MaxClock)
    \/ \E p \in {<<"c1", "t1">>, <<"c2", "t2">>} : TerminalSpawn(p[1], p[2], -1, -1, FALSE)
    \/ \E c \in {"c1", "c2"}, id \in TerminalIds : TerminalWrite(c, id, 1, FALSE)
    \/ \E c \in {"c1", "c4"} : TerminalList(c)
    \/ \E id \in TerminalIds : PtyData(id)
    \/ \E id \in TerminalIds : PtyExit(id)
    \/ \E k \in {{}, TerminalIds} : cleanupCallback(k)

SpecReaper == InitConnected /\ [][NextReaper]_vars

----------------------------------------------------------------------------
(* The ledger of tenant a.  Callers (request handlers, agent runs) call the *)
(* functions while earlier calls are still awaiting their file operations.  *)
InitLedger(choices) ==
    /\ ProvisionedGateway
    /\ conns = Established
    /\ LedgerInit
    /\ quotas \in choices
    /\ CronInit
    /\ HostInit
    /\ cronEnabled = TRUE
    /\ jobStore = [t \in Tenants |-> "empty"]
    /\ JobsInit

ledgerSteps(p) ==
    \/ loadRateLimitState(p)
    \/ saveRateLimitState(p)
    \/ loadTenantUsage(p)
    \/ saveTenantUsage(p)

\* rate limiting: overlapping checkAndRecordRequest calls while minutes and hours pass
RateQuotas ==
    { [NoQuotas EXCEPT !.requestsPerMinute = m, !.requestsPerHour = h] :
         m \in {-1, 1, 2}, h \in {-1, 2} }

NextRateLimit ==
    \/ Wait(ONE_MINUTE, MaxTime)
    \/ Wait(ONE_HOUR, MaxLedgerClock)
    \/ \E p \in Procs : CallCheck(p, "checkAndRecordRequest", "a")
    \/ \E p \in Procs : ledgerSteps(p)

SpecRateLimit == InitLedger(RateQuotas) /\ [][NextRateLimit]_vars

\* the arguments the callers pass
TokenArgs ==
    { [tokens |-> [input |-> 1, output |-> 0, cacheRead |-> 0, cacheWrite |-> 0], costCents |-> 0],
      [tokens |-> [input |-> 2, output |-> 1, cacheRead |-> 1, cacheWrite |-> 1], costCents |-> 2] }
SessionArgs == { [total |-> 1, active |-> 1], [total |-> 0, active |-> -1] }
SandboxArgs == { [cpuSeconds |-> 1, peakMemoryMB |-> 1], [cpuSeconds |-> 0, peakMemoryMB |-> 2] }
DiskArgs    == { [totalBytes |-> 0], [totalBytes |-> 5] }

\* usage updates: overlapping calls of the three update functions
NextUsageRace ==
    \/ \E p \in Procs, args \in TokenArgs : CallUpdate(p, "updateTokenUsage", "a", args)
    \/ \E p \in Procs, args \in SessionArgs : CallUpdate(p, "updateSessionCount", "a", args)
    \/ \E p \in Procs, args \in SandboxArgs : CallUpdate(p, "updateSandboxUsage", "a", args)
    \/ \E p \in Procs : loadTenantUsage(p)
    \/ \E p \in Procs : saveTenantUsage(p)

SpecUsageRace == InitLedger({NoQuotas}) /\ [][NextUsageRace]_vars

\* the limits a tenant may have
QuotaChoices ==
    { [requestsPerMinute |-> m, requestsPerHour |-> -1,
       monthlyTokenLimit |-> tk, monthlyTokenSoftLimit |-> 1,
       monthlyCostLimitCents |-> c, monthlyCostSoftLimitCents |-> 0,
       diskSpaceLimitBytes |-> d, maxConcurrentSessions |-> n] :
         m \in {-1, 1}, tk \in {0, 2}, c \in {0, 2}, d \in {0, 5}, n \in {-1, 1} }

\* quota checks: one caller after the other updates the usage and asks
NextQuota ==
    \/ \E args \in TokenArgs : CallUpdate("p1", "updateTokenUsage", "a", args)
    \/ \E args \in SessionArgs : CallUpdate("p1", "updateSessionCount", "a", args)
    \/ \E args \in DiskArgs : CallUpdate("p1", "updateDiskUsage", "a", args)
    \/ CallCheck("p1", "checkQuotaBeforeRequest", "a")
    \/ ledgerSteps("p1")

SpecQuota == InitLedger(QuotaChoices) /\ [][NextQuota]_vars

\* periods: updates and status reads overlap while months pass
NextPeriods ==
    \/ MonthTurns
    \/ \E p \in Procs, args \in {x \in TokenArgs : x.tokens.cacheRead > 0} :
          CallUpdate(p, "updateTokenUsage", "a", args)
    \/ \E p \in Procs, args \in {x \in SandboxArgs : x.cpuSeconds > 0} :
          CallUpdate(p, "updateSandboxUsage", "a", args)
    \/ \E p \in Procs : CallCheck(p, "checkQuotaBeforeRequest", "a")
    \/ \E p \in Procs : ledgerSteps(p)
    \/ \E p \in Procs : archiveUsageSnapshot(p)

SpecPeriods == InitLedger({NoQuotas}) /\ [][NextPeriods]_vars

----------------------------------------------------------------------------
(* The scheduler supervisor used by overlapping cron.run requests of the    *)
(* tenants: each request calls ensureTenantService                          *)
InitEnsure ==
    /\ ProvisionedGateway
    /\ conns = Established
    /\ LedgerInit
    /\ quotas = NoQuotas
    /\ CronInit
    /\ HostInit
    /\ cronEnabled \in BOOLEAN
    /\ jobStore \in [Tenants -> {"jobs", "empty"}]
    /\ JobsInit

NextEnsure ==
    \/ \E p \in Procs, t \in Tenants : ensureTenantService(p, t)
    \/ \E p \in Procs : serviceStarted(p)

SpecEnsure == InitEnsure /\ [][NextEnsure]_vars

(* The supervisor at gateway start: startAll is called once, on a registry  *)
(* that holds any of the tenants a and b, enabled or disabled               *)
SchedulerRegistries ==
    { [t \in ValidTenantIds |->
          IF t \in present
          THEN getTenant(updateTenant(createTenant([x \in ValidTenantIds |-> Nil], t, 1), t,
                                      IF t \in disabled THEN "true" ELSE "undefined"), t)
          ELSE Nil] : present \in SUBSET Tenants, disabled \in SUBSET Tenants }

InitStartAll ==
    /\ registry \in SchedulerRegistries
    /\ nextSecret = 3
    /\ issued = [t \in Tenants |-> <<>>]
    /\ conns = [c \in ConnIds |-> Nil]
    /\ terminalSessions = [id \in TerminalIds |-> Nil]
    /\ pty = [id \in TerminalIds |-> Nil]
    /\ now = 0
    /\ effects = NoEffects
    /\ last = [op |-> "init"]
    /\ authIn = Nil
    /\ keyIn = Nil
    /\ runner = <<>>
    /\ LedgerInit
    /\ quotas = NoQuotas
    /\ CronInit
    /\ HostInit
    /\ cronEnabled \in BOOLEAN
    /\ jobStore \in [Tenants -> JobStores]
    /\ JobsInit

NextStartAll ==
    \/ last.op = "init" /\ startAll("p1")
    \/ globalStarted("p1")
    \/ scanTenant("p1")
    \/ tenantHasCronJobs("p1")
    \/ serviceStarted("p1")

SpecStartAll == InitStartAll /\ [][NextStartAll]_vars

(* The supervisor over the life of the gateway: tenants a and b are         *)
(* registered and enabled, any of them has jobs; requests ensure and remove *)
(* tenant schedulers, startAll and stopAll are called in any order          *)
InitStopAll ==
    /\ ProvisionedGateway
    /\ conns = Established
    /\ LedgerInit
    /\ quotas = NoQuotas
    /\ CronInit
    /\ HostInit
    /\ cronEnabled = TRUE
    /\ jobStore \in [Tenants -> {"jobs", "empty"}]
    /\ JobsInit

NextStopAll ==
    \/ \E p \in Procs, t \in Tenants : ensureTenantService(p, t)
    \/ \E p \in Procs : serviceStarted(p)
    \/ globalService.starts < MaxCalls /\ startAll("p1")
    \/ globalStarted("p1")
    \/ scanTenant("p1")
    \/ tenantHasCronJobs("p1")
    \/ \E t \in Tenants : removeTenantService(t)
    \/ stopAll

SpecStopAll == InitStopAll /\ [][NextStopAll]_vars

(* The tenants' schedulers, ensured by their requests, report their events  *)
(* while the connections c1..c4 are open; any of them may be slow           *)
NextCronEvents ==
    \/ \E p \in Procs, t \in Tenants : ensureTenantService(p, t)
    \/ \E p \in Procs : serviceStarted(p)
    \/ \E i \in 1..MaxServices, action \in CronEventActions, slow \in SUBSET ConnIds :
          onEvent(i, action, slow)

SpecCronEvents == InitEnsure /\ [][NextCronEvents]_vars

(* The control plane API: one request, any request, to a gateway with the   *)
(* tenants a and b, with a secret configured or not                         *)
InitInternalHttp ==
    /\ registry = createTenant(createTenant([t \in ValidTenantIds |-> Nil], "a", 1), "b", 2)
    /\ nextSecret = 3
    /\ issued = [t \in Tenants |-> buildTenantToken(t, generateToken(IF t = "a" THEN 1 ELSE 2))]
    /\ conns = Established
    /\ terminalSessions = [id \in TerminalIds |-> Nil]
    /\ pty = [id \in TerminalIds |-> Nil]
    /\ now = 0
    /\ effects = NoEffects
    /\ last = [op |-> "request"]
    /\ authIn = Nil
    /\ keyIn \in InternalRequests
    /\ runner = <<>>
    /\ LedgerInit
    /\ quotas = NoQuotas
    /\ CronInit
    /\ cronEnabled = TRUE
    /\ jobStore = [t \in Tenants |-> "empty"]
    /\ JobsInit
    /\ controlPlaneToken \in {<<>>, <<"s", "k">>}
    /\ pairing = [d \in Tenants \cup {None} |-> {}]
    /\ overlayFile = [t \in Tenants |-> Nil]
    /\ fileSystem = {}
    /\ s3Objects = [k \in BackupKeys |-> Nil]

NextInternalHttp ==
    \E throws \in BOOLEAN : last.op = "request" /\ handleInternalHttpRequest(keyIn, throws)

SpecInternalHttp == InitInternalHttp /\ [][NextInternalHttp]_vars

(* Restores from a bucket that holds a backup of tenant b and, at tenant    *)
(* a's key, any archive of at most MaxEntries entries: regular files and    *)
(* links, with paths and link paths inside and outside of the directory     *)
EntryPaths ==
    {RelPath(<<"f">>), RelPath(<<"d", "f">>), RelPath(<<"..", "x">>), AbsPath(<<"etc", "x">>)}
LinkPaths ==
    {RelPath(<<"f">>), RelPath(<<"..">>), RelPath(<<"..", "b", "secret">>),
     AbsPath(<<"etc", "passwd">>)}
TarEntries ==
    { TarEntry("File", p, RelPath(<<>>)) : p \in EntryPaths }
    \cup { TarEntry(type, p, l) : type \in {"SymbolicLink", "Link"},
                                  p \in {RelPath(<<"l">>), RelPath(<<"d", "l">>)},
                                  l \in LinkPaths }
Archives == UNION { [1..n -> TarEntries] : n \in 0..MaxEntries }

\* the files of the host before any restore
HostFiles ==
    { Node(p, "File", p) : p \in {<<"etc", "passwd">>, <<"tenants", "a", "old">>,
                                  <<"tenants", "b", "secret">>} }

InitRestore ==
    /\ ProvisionedGateway
    /\ conns = Established
    /\ LedgerInit
    /\ quotas = NoQuotas
    /\ CronInit
    /\ cronEnabled = TRUE
    /\ jobStore = [t \in Tenants |-> "empty"]
    /\ JobsInit
    /\ controlPlaneToken = <<"s", "k">>
    /\ pairing = [d \in Tenants \cup {None} |-> {}]
    /\ overlayFile = [t \in Tenants |-> Nil]
    /\ fileSystem = HostFiles
    /\ s3Objects \in
          { [k \in BackupKeys |->
                IF k[2] = "a" THEN [tenantId |-> "a", entries |-> entries]
                ELSE [tenantId |-> "b",
                      entries |-> <<TarEntry("File", RelPath(<<"secret">>), RelPath(<<>>))>>]] :
            entries \in Archives }

NextRestore ==
    \E c \in {"c1", "c4"}, t \in {"a", "zz"}, k \in BackupKeys \cup {<<>>},
       x \in RestoreFailures, strict \in BOOLEAN :
        TenantsRestore(c, t, k, TRUE, "undefined", x, strict)

SpecRestore == InitRestore /\ [][NextRestore]_vars

(* The overlay operations on tenants whose openclaw.json holds anything     *)
InitOverlay ==
    /\ ProvisionedGateway
    /\ conns = Established
    /\ LedgerInit
    /\ quotas = NoQuotas
    /\ CronInit
    /\ cronEnabled = TRUE
    /\ jobStore = [t \in Tenants |-> "empty"]
    /\ JobsInit
    /\ controlPlaneToken = <<"s", "k">>
    /\ pairing = [d \in Tenants \cup {None} |-> {}]
    /\ fileSystem = {}
    /\ s3Objects = [k \in BackupKeys |-> Nil]
    /\ overlayFile \in [Tenants -> FileContents]

NextOverlay ==
    \/ \E t \in Tenants, config \in Configs : writeTenantConfig(t, config)
    \/ \E t \in Tenants, updates \in Configs : updateTenantConfig(t, updates)
    \/ \E t \in Tenants, key \in DOMAIN loadConfig : deleteTenantConfigKey(t, key)

SpecOverlay == InitOverlay /\ [][NextOverlay]_vars

(* Device pairing: devices ask to be paired with a tenant or with the       *)
(* gateway, and the clients (tenant a and tenant b with the pairing scope,  *)
(* tenant b with the admin scope, an operator) approve and reject           *)
PairingClients ==
    [c \in ConnIds |->
        CASE c = "c1" -> Client(c, "a", "operator", {PAIRING_SCOPE})
          [] c = "c2" -> Client(c, "b", "operator", {PAIRING_SCOPE})
          [] c = "c3" -> Client(c, "b", "operator", {ADMIN_SCOPE})
          [] OTHER    -> Client(c, None, "operator", {ADMIN_SCOPE})]

InitPairing == Provisioned /\ conns = PairingClients

NextPairing ==
    \/ \E d \in Tenants \cup {None}, r \in RequestIds, dev \in DeviceIds :
          requestDevicePairing(d, r, dev)
    \/ \E c \in ConnIds, method \in {"device.pair.approve", "device.pair.reject"},
          r \in RequestIds \cup {None}, slow \in {{}, {"c1"}} :
          DevicePairResolve(c, method, r, slow)

SpecPairing == InitPairing /\ [][NextPairing]_vars

(* Jobs added at run time: the supervisor has started nothing for the       *)
(* tenants; the clients add jobs, and cron.run calls ensureTenantService    *)
NextCronAdd ==
    \/ \E c \in ConnIds, valid \in BOOLEAN, id \in JobIds : CronAdd(c, valid, id)
    \/ \E p \in Procs, t \in Tenants : ensureTenantService(p, t)
    \/ \E p \in Procs : serviceStarted(p)

SpecCronAdd == InitEnsure /\ [][NextCronAdd]_vars

(* Tenants with schedulers are deleted: cron.run has the supervisor ensure  *)
(* a tenant's scheduler; tenants are deleted over the gateway and over the  *)
(* control plane                                                            *)
NextCronDelete ==
    \/ \E p \in Procs, t \in Tenants : ensureTenantService(p, t)
    \/ \E p \in Procs : serviceStarted(p)
    \/ \E c \in ConnIds, t \in Tenants, confirm \in BOOLEAN : TenantsDelete(c, t, confirm)
    \/ \E t \in Tenants, tokenOk \in BOOLEAN : ControlPlaneDelete(t, tokenOk)

SpecCronDelete == InitEnsure /\ [][NextCronDelete]_vars

(* The cron methods: the tenants' clients and the operator list, add,       *)
(* change, remove and run jobs                                              *)
NextCronCalls ==
    \/ \E c \in ConnIds, valid \in BOOLEAN : CronAdd(c, valid, "j1")
    \/ \E c \in ConnIds, method \in CronMethods, valid \in BOOLEAN, jobId \in {"j0", "j1", None} :
          CronCall(c, method, valid, jobId)

SpecCronCalls == InitEnsure /\ [][NextCronCalls]_vars

(* Concurrent changes of the tenants' job stores                            *)
NextCronRace ==
    \/ \E p \in Procs, c \in {"c1", "c2"},
          method \in {"cron.add", "cron.update", "cron.remove"}, jobId \in JobIds :
          cronStoreLoaded(p, c, method, jobId)
    \/ \E p \in Procs : cronStoreSaved(p)

SpecCronRace == InitEnsure /\ [][NextCronRace]_vars

(* A terminal's whole life: every way a session record can go away, with   *)
(* the handle's exit callbacks running on error and on close.               *)
NextExit ==
    \/ \E d \in {1, TERMINAL_IDLE_TIMEOUT_MS} : Wait(d, MaxClock)
    \/ \E p \in {<<"c1", "t1">>, <<"c2", "t2">>} : TerminalSpawn(p[1], p[2], -1, -1, FALSE)
    \/ \E c \in {"c1", "c2"}, id \in TerminalIds, killThrows \in BOOLEAN :
          TerminalClose(c, id, killThrows)
    \/ \E id \in TerminalIds : PtyData(id)
    \/ \E id \in TerminalIds : PtyExit(id)
    \/ \E id \in TerminalIds : PtyError(id)
    \/ \E k \in {{}, TerminalIds} : cleanupCallback(k)
    \/ \E t \in Tenants, k \in {{}, TerminalIds} : CloseAllTenantTerminals(t, k)

SpecExit == InitConnected /\ [][NextExit]_vars


(* toTenantSessionKey over the drawn keys and tenant ids                    *)
InitTenantKey ==
    /\ PureInit("key")
    /\ authIn = Nil
    /\ keyIn \in [sessionKey : TenantKeyInputs, tenantId : Tenants]

SpecTenantKey == InitTenantKey /\ [][ToTenantKey \/ ToTenantKeyAgain]_vars


\* the limits a tenant may have, each absent (-1), zero or positive
ZeroQuotaChoices ==
    { [requestsPerMinute |-> m, requestsPerHour |-> h,
       monthlyTokenLimit |-> tk, monthlyTokenSoftLimit |-> -1,
       monthlyCostLimitCents |-> c, monthlyCostSoftLimitCents |-> -1,
       diskSpaceLimitBytes |-> d, maxConcurrentSessions |-> n] :
         m \in {-1, 0, 2}, h \in {-1, 0}, tk \in {-1, 0, 2}, c \in {-1, 0, 2},
         d \in {-1, 0, 5}, n \in {-1, 0, 1} }

SpecQuotaZero == InitLedger(ZeroQuotaChoices) /\ [][NextQuota]_vars


----------------------------------------------------------------------------
(* C4: validateTenantToken(T) returns a context exactly when T is the token *)
(* most recently issued (by create or rotate) for a tenant that currently   *)
(* exists and is not disabled; superseded tokens, tokens of removed or      *)
(* disabled tenants and tokens with another secret return none.             *)
ValidatesExactlyCurrentToken ==
    last.op = "validate" =>
        /\ last.context # None <=>
              \E t \in Tenants : /\ issued[t] # <<>>
                                 /\ last.token = issued[t]
                                 /\ registry[t] # Nil
                                 /\ ~registry[t].disabled
        /\ last.context # None => last.token = issued[last.context]

\* a rotated, re-enabled tenant's current token has just validated
WitnessC4 ==
    /\ last.op = "validate"
    /\ last.context # None
    /\ nextSecret >= 3
    /\ last.token # buildTenantToken(last.context, generateToken(1))

----------------------------------------------------------------------------
(* C2: a terminal.write with a terminal id and string data, sent on a       *)
(* connection of tenant B without the admin scope and naming a terminal     *)
(* owned by another tenant A, is answered ok=false with UNAUTHORIZED; it    *)
(* writes nothing to the PTY and leaves the session, lastActivityAt         *)
(* included, as it was.                                                     *)
CrossTenantWriteDenied ==
    [][\A c \in ConnIds, id \in TerminalIds, x \in BOOLEAN :
          ( /\ last'.op = "terminal.write"
            /\ terminalSessions[id] # Nil
            /\ conns[c] # Nil
            /\ getTenantId(conns[c]) # None
            /\ getTenantId(conns[c]) # terminalSessions[id].tenantId
            /\ ~hasAdminScope(conns[c])
            /\ TerminalWrite(c, id, 1, x) )
          => /\ last'.ok = FALSE
             /\ last'.code = UNAUTHORIZED
             /\ pty' = pty
             /\ terminalSessions' = terminalSessions]_vars

\* tenant b's write on tenant a's idle terminal has just been refused
WitnessC2 ==
    /\ last.op = "terminal.write"
    /\ last.code = UNAUTHORIZED
    /\ last.conn = "c2"
    /\ terminalSessions[last.terminalId] # Nil
    /\ terminalSessions[last.terminalId].tenantId = "a"
    /\ terminalSessions[last.terminalId].lastActivityAt < now
    /\ pty[last.terminalId].writes = 0

(* C3: terminal.write, terminal.resize and terminal.close with well-formed  *)
(* parameters naming a terminal of tenant A are answered UNAUTHORIZED on    *)
(* every connection that carries a tenant id other than A, the admin scope  *)
(* notwithstanding.                                                         *)
ForeignTenantDeniedDespiteAdmin ==
    [][\A c \in ConnIds, id \in TerminalIds, x \in BOOLEAN :
          ( /\ terminalSessions[id] # Nil
            /\ conns[c] # Nil
            /\ getTenantId(conns[c]) # None
            /\ getTenantId(conns[c]) # terminalSessions[id].tenantId
            /\ \/ TerminalWrite(c, id, 1, x)
               \/ TerminalResize(c, id, 5, 300, x)
               \/ TerminalClose(c, id, x) )
          => /\ last'.ok = FALSE
             /\ last'.code = UNAUTHORIZED]_vars

(* C5: tenants.get, rotate, delete, backup, restore, backups.list, usage,   *)
(* quota.status and usage.history, called on a connection of tenant B       *)
(* without the admin scope and naming another tenant, are answered ok=false *)
(* with 'Access denied', and no registry, usage or backup operation is      *)
(* performed.                                                               *)
TenantSelfMethods ==
    {"tenants.get", "tenants.rotate", "tenants.delete", "tenants.backup", "tenants.restore",
     "tenants.backups.list", "tenants.usage", "tenants.quota.status", "tenants.usage.history"}

CrossTenantManagementDenied ==
    [][\A c \in ConnIds, t \in Tenants :
          ( /\ conns[c] # Nil
            /\ getTenantId(conns[c]) # None
            /\ getTenantId(conns[c]) # t
            /\ ~hasAdminScope(conns[c])
            /\ last'.op \in TenantSelfMethods
            /\ last'.conn = c
            /\ last'.target = t )
          => /\ last'.ok = FALSE
             /\ last'.message = "Access denied"
             /\ effects' = {}
             /\ regVars' = regVars]_vars

\* tenant b's request about the existing tenant a has just been refused
WitnessC5 ==
    /\ last.op \in TenantSelfMethods
    /\ last.conn = "c2"
    /\ last.target = "a"
    /\ last.message = "Access denied"
    /\ registry["a"] # Nil

(* C9: when a tenant has just been disabled (tenants.update disabled=true)  *)
(* or deleted (tenants.delete, control-plane DELETE), no terminal session   *)
(* of that tenant is left in the session map.                               *)
TerminalsClosedWithTenant ==
    ( \/ last.op \in {"tenants.delete", "DELETE /tenants"} /\ last.ok
      \/ last.op = "tenants.update" /\ last.ok /\ last.disabled = "true" )
    => \A id \in TerminalIds :
          terminalSessions[id] # Nil => terminalSessions[id].tenantId # last.target

(* C10: once a tenant is disabled or removed, none of its connections can   *)
(* complete terminal.spawn: a spawn that succeeds is on a connection whose  *)
(* tenant exists in the registry and is not disabled.                       *)
NoSpawnForClosedTenant ==
    (last.op = "terminal.spawn" /\ last.ok)
    => LET t == getTenantId(conns[last.conn])
       IN /\ registry[t] # Nil
          /\ ~registry[t].disabled

ScopeFourCases ==
    last.op = "scope" =>
        LET S == keyIn.sessionKey
            X == keyIn.tenantId
            r == last.result
            prefixOf == IF Len(S) >= 3 /\ S[1] = "tenant" THEN S[2] ELSE None
        IN /\ X = None => r.ok /\ r.sessionKey = S
           /\ (X # None /\ prefixOf = X) => r.ok /\ r.sessionKey = S
           /\ (X # None /\ prefixOf \notin {None, X}) =>
                  ~r.ok /\ r.error = "does not match authenticated tenant"
           /\ (X # None /\ prefixOf = None) =>
                  /\ r.ok
                  /\ Len(r.sessionKey) = Len(S) + 2
                  /\ SubSeq(r.sessionKey, 1, 2) = <<"tenant", X>>
                  /\ SubSeq(r.sessionKey, 3, Len(r.sessionKey)) = S

\* a key of another tenant has been refused
WitnessC7 ==
    /\ last.op = "scope"
    /\ keyIn.tenantId = "a"
    /\ keyIn.sessionKey = <<"tenant", "b", "agent">>
    /\ ~last.result.ok

(* C8: when scopeSessionKeyToTenant(S, X) succeeds, applying it to its      *)
(* result with the same X returns exactly that result.                      *)
ScopeIdempotent ==
    last.op = "rescope" => last.result = last.first

\* a key that the first call prefixed has gone through the second call
WitnessC8 ==
    /\ last.op = "rescope"
    /\ keyIn.tenantId = "a"
    /\ keyIn.sessionKey = <<"agent", "b">>
    /\ last.first.sessionKey = <<"tenant", "a", "agent", "b">>

(* C6: on POST /v1/chat/completions and POST /v1/responses authenticated as *)
(* tenant X, every session key handed to the agent runner starts with       *)
(* 'tenant:X:'; when the client's key starts with another tenant's prefix   *)
(* the answer is 403 'forbidden' and the runner is not invoked.             *)
HttpRunnerKeyScoped ==
    ( /\ last.op \in {"openai-http", "openresponses-http"}
      /\ last.handled
      /\ keyIn.auth.ok
      /\ keyIn.auth.tenantId # None )
    => LET X == keyIn.auth.tenantId
           S == keyIn.sessionKey
       IN /\ \A i \in 1..Len(runner) :
                /\ Len(runner[i]) >= 3
                /\ SubSeq(runner[i], 1, 2) = <<"tenant", X>>
          /\ ( /\ keyIn.method = "POST"
               /\ keyIn.bodyOk
               /\ Len(S) >= 3
               /\ S[1] = "tenant"
               /\ S[2] # X )
             => /\ last.status = 403
                /\ last.error = "forbidden"
                /\ runner = <<>>

\* tenant a's request with a non-tenant key has reached the runner
WitnessC6 ==
    /\ last.op = "openai-http"
    /\ keyIn.auth.tenantId = "a"
    /\ keyIn.sessionKey = <<"agent", "b">>
    /\ runner = << <<"tenant", "a", "agent", "b">> >>

----------------------------------------------------------------------------
(* C11: a terminal that saw no write, resize or output for more than the    *)
(* idle timeout is, after the next run of the cleanup callback, absent from *)
(* the session map that terminal.list reads, and a terminal.exit event for  *)
(* it is broadcast: when the process the callback killed exits, the exit is *)
(* announced to a connection.                                               *)
IdleTerminalReapedAndAnnounced ==
    [][ /\ last'.op = "cleanup" =>
              \A id \in TerminalIds :
                 (terminalSessions[id] # Nil /\ idleTooLong(terminalSessions[id]))
                 => terminalSessions'[id] = Nil
        /\ \A id \in TerminalIds :
              ( /\ pty[id] # Nil
                /\ pty[id].state = "killed"
                /\ last'.op = "pty.exit"
                /\ last'.terminalId = id )
              => /\ last'.event = "terminal.exit"
                 /\ last'.connIds # {} ]_vars

(* C12: terminal.list answers a caller without a tenant id that holds the   *)
(* admin scope with every session, and a caller that carries a tenant id    *)
(* with exactly the sessions of that tenant: never one of another tenant.   *)
ListShowsOwnSessionsOnly ==
    last.op = "terminal.list" =>
        LET client == conns[last.conn]
            all    == { id \in TerminalIds : terminalSessions[id] # Nil }
        IN IF getTenantId(client) # None
           THEN last.sessions =
                   { id \in all : terminalSessions[id].tenantId = getTenantId(client) }
           ELSE hasAdminScope(client) => last.sessions = all

(* C13: every terminal.output and terminal.exit event goes to exactly one   *)
(* connection, the one whose terminal.spawn created the terminal: the       *)
(* session records the spawning connection, keeps it for as long as it      *)
(* exists, and the events of the terminal are sent to that connection only. *)
EventsToSpawnerOnly ==
    [][ /\ (last'.op = "terminal.spawn" /\ last'.ok)
            => terminalSessions'[last'.terminalId].connId = last'.conn
        /\ \A id \in TerminalIds :
              (terminalSessions[id] # Nil /\ terminalSessions'[id] # Nil)
              => terminalSessions'[id].connId = terminalSessions[id].connId
        /\ (last'.op \in {"pty.data", "pty.exit"} /\ last'.event # None)
            => /\ terminalSessions[last'.terminalId] # Nil
               /\ last'.connIds = {terminalSessions[last'.terminalId].connId} ]_vars

\* output of a terminal of tenant b, who has two connections, went to the
\* spawning one alone
WitnessC13 ==
    /\ last.op = "pty.data"
    /\ last.event = "terminal.output"
    /\ last.connIds = {"c2"}
    /\ terminalSessions[last.terminalId].tenantId = "b"
    /\ getTenantId(conns["c3"]) = "b"

(* C14: under any interleaving of checkAndRecordRequest calls for one       *)
(* tenant, the requests that were allowed never exceed the limit: no window *)
(* of one minute holds more than requestsPerMinute of them and no window of *)
(* one hour more than requestsPerHour.                                      *)
allowedWithin(t, window) ==
    Cardinality({ i \in DOMAIN allowedLog : allowedLog[i] > t - window /\ allowedLog[i] <= t })

AllowedWithinRateLimits ==
    \A t \in 0..now :
       /\ quotas.requestsPerMinute # -1 => allowedWithin(t, ONE_MINUTE) <= quotas.requestsPerMinute
       /\ quotas.requestsPerHour # -1 => allowedWithin(t, ONE_HOUR) <= quotas.requestsPerHour

(* C15: no usage update is lost, however the calls interleave: once every   *)
(* call has returned, the counters of the stored snapshot are the sums of   *)
(* what the calls added.                                                    *)
NoUpdateLost ==
    (\A p \in Procs : calls[p] = Nil) =>
        LET usage == IF usageFile["a"] = Nil THEN createEmptyUsageSnapshot("a")
                     ELSE usageFile["a"]
        IN /\ usage.totalMessages = applied.totalMessages
           /\ usage.inputTokens = applied.inputTokens
           /\ usage.totalCostCents = applied.totalCostCents
           /\ usage.totalSessions = applied.totalSessions
           /\ usage.sandboxCpuSeconds = applied.sandboxCpuSeconds

ArchivedOnNewPeriod ==
    [][\A p \in Procs :
         LET c == calls[p]
             d == calls'[p]
         IN /\ ( /\ c # Nil
                 /\ c.pc = "loadTenantUsage"
                 /\ d # c
                 /\ usageFile[c.tenantId] # Nil
                 /\ usageFile[c.tenantId].period # c.currentPeriod )
               => /\ d # Nil
                  /\ d.pc = "archiveUsageSnapshot"
                  /\ d.snapshot = usageFile[c.tenantId]
            /\ (c # Nil /\ c.pc = "archiveUsageSnapshot" /\ d # c)
               => /\ historyFiles'[c.tenantId][c.snapshot.period] = c.snapshot
                  /\ LET u == IF d = Nil THEN last'.usage ELSE d.snapshot
                     IN /\ u.period = period
                        /\ u.totalTokens =
                              IF c.fn = "updateTokenUsage"
                              THEN c.args.tokens.input + c.args.tokens.output
                                      + c.args.tokens.cacheRead + c.args.tokens.cacheWrite
                              ELSE 0
                        /\ u.totalMessages = IF c.fn = "updateTokenUsage" THEN 1 ELSE 0
                        /\ u.totalRequests = IF c.stage = "record" THEN 1 ELSE 0
                        /\ u.sandboxCpuSeconds =
                              IF c.fn = "updateSandboxUsage" THEN c.args.cpuSeconds ELSE 0
                        /\ u.totalCostCents =
                              IF c.fn = "updateTokenUsage" THEN c.args.costCents ELSE 0 ]_vars

\* January's snapshot with its tokens is in the history, and the quota
\* check that archived it was given an empty snapshot of a later month
WitnessC17 ==
    /\ last.op = "checkQuotaBeforeRequest"
    /\ last.usage.period # "2026-01"
    /\ last.usage.totalTokens = 0
    /\ historyFiles["a"]["2026-01"] # Nil
    /\ historyFiles["a"]["2026-01"].totalTokens > 0

EnsureReturnsStartedSingleton ==
    /\ \A i \in DOMAIN services :
          /\ tenantServices[services[i].tenantId] = i
          /\ services[i].starts = IF cronEnabled THEN 1 ELSE 0
    /\ last.op = "ensureTenantService" =>
          /\ last.service = tenantServices[last.tenantId]
          /\ services[last.service].state = IF cronEnabled THEN "started" ELSE "created"

(* C20: when startAll has returned, the global scheduler is started, every  *)
(* registered tenant that is not disabled and has a non-empty job store has *)
(* a started scheduler, and no other tenant has a scheduler.                *)
hasScheduler(t) == tenantServices[t] # 0
eligibleTenant(t) ==
    /\ registry[t] # Nil
    /\ ~registry[t].disabled
    /\ jobStore[t] = "jobs"

----------------------------------------------------------------------------
(* C21: after stopAll returns, with no supervisor call still in flight, no  *)
(* scheduler whose start() the supervisor called is still running: neither  *)
(* the global one nor any tenant scheduler it constructed                   *)
NothingRunsAfterStopAll ==
    (last.op = "stopAll" /\ \A p \in Procs : cronCalls[p] = Nil) =>
        /\ ~running(globalService)
        /\ \A i \in 1..Len(services) : ~running(services[i])


----------------------------------------------------------------------------
(* C22: every event of tenant X's scheduler is broadcast under the name     *)
(* tenant:X:cron with dropIfSlow set, and reaches no connection that is     *)
(* authenticated as a different tenant                                      *)
CronEventsToOwnTenantOnly ==
    last.op = "cron.onEvent" =>
        /\ last.event = <<"tenant", last.tenantId, "cron">>
        /\ last.dropIfSlow
        /\ \A c \in last.connIds : getTenantId(conns[c]) \in {None, last.tenantId}


----------------------------------------------------------------------------
(* C23: for a tenant-authenticated operator connection authorization does   *)
(* not depend on scopes: every method of TENANT_ALLOWED_METHODS is allowed  *)
(* whatever scopes the connection holds, including none                     *)
TenantAllowListIgnoresScopes ==
    ( /\ last.op = "authorize"
      /\ authIn.client # Nil
      /\ authIn.client.hasConnect
      /\ authIn.client.tenantId # None
      /\ authIn.client.role \in {None, "operator"}
      /\ authIn.method \in TENANT_ALLOWED_METHODS )
    => last.result = Allowed


----------------------------------------------------------------------------
(* C24: every request under /internal/v1 is answered 401 and performs no    *)
(* tenant, registry or backup operation unless its X-Control-Plane-Token    *)
(* equals the configured secret; with no secret configured every such       *)
(* request is answered 401                                                  *)
InternalApiNeedsToken ==
    ( /\ last.op = "internal-http"
      /\ isInternalPath(last.req.pathname)
      /\ (controlPlaneToken = <<>> \/ last.req.token # controlPlaneToken) )
    => (last.handled /\ last.status = 401 /\ effects = NoEffects)


----------------------------------------------------------------------------
(* C25: a tenant connection without the admin scope restores only its own   *)
(* tenant's backups: a tenants.restore that succeeds for it has extracted   *)
(* an object whose key lies in the caller's own backups/{tenantId}/         *)
(* namespace                                                                *)
RestoresOwnBackupsOnly ==
    ( /\ last.op = "tenants.restore"
      /\ last.ok
      /\ getTenantId(conns[last.conn]) # None
      /\ ~hasAdminScope(conns[last.conn]) )
    => isOwnBackupKey(last.sourceKey, getTenantId(conns[last.conn]))


----------------------------------------------------------------------------
(* C26: restoring an archive creates nothing outside the tenant state       *)
(* directory: every file or link a restore has made lies in the state       *)
(* directory and refers to a file in it, and the regular files of the       *)
(* archive with a path in the directory are all extracted                   *)
ExtractionStaysInStateDir ==
    (last.op = "tenants.restore" /\ last.ok) =>
        LET stateDir == resolveTenantStateDir(last.target)
            entries  == getObject(last.sourceKey).entries
        IN /\ \A n \in fileSystem \ HostFiles :
                 \E t \in ValidTenantIds :
                    /\ isWithin(n.path, resolveTenantStateDir(t))
                    /\ isWithin(n.target, resolveTenantStateDir(t))
           /\ \A i \in 1..Len(entries) :
                 ( /\ entries[i].type = "File"
                   /\ ~entries[i].path.abs
                   /\ isWithin(join(stateDir, entries[i].path), stateDir)
                   /\ ~skippedByTar(entries[i]) )
                 => \E n \in fileSystem : n.path = join(stateDir, entries[i].path)


----------------------------------------------------------------------------
\* a configuration that holds one of the admin-only keys
hasAdminOnlyKey(config) ==
    \/ DOMAIN config \cap ADMIN_ONLY_KEYS # {}
    \/ \E parent \in DOMAIN ADMIN_ONLY_NESTED_KEYS :
          \E key \in ADMIN_ONLY_NESTED_KEYS[parent] :
             getNested(config, parent, key) # Undefined

\* neither the overlay read from the file, nor the file an operation wrote,
\* holds an admin-only key
OverlayNeverHoldsAdminOnlyKeys ==
    \A t \in Tenants :
        /\ ~hasAdminOnlyKey(loadTenantConfigOverlay(t))
        /\ (last.op \in {"writeTenantConfig", "updateTenantConfig", "deleteTenantConfigKey"}
              /\ last.wrote /\ last.tenantId = t)
           => (isPlainObject(overlayFile[t]) /\ ~hasAdminOnlyKey(overlayFile[t].fields))

\* the tenant's configuration has the base values of the admin-only keys
AdminOnlyValuesAreTheBaseValues ==
    \A t \in Tenants :
        adminOnlyValues(loadConfigForTenant(t)) = adminOnlyValues(loadConfig)

(* C27: the overlay a tenant's file yields, and the file itself once         *)
(* writeTenantConfig, updateTenantConfig or deleteTenantConfigKey has written *)
(* it, hold none of the admin-only keys, and loadConfigForTenant returns the *)
(* base configuration's values for gateway, models, meta,                    *)
(* agents.credentialsPath and env.shellEnv whatever the file holds           *)
AdminOnlyKeysProtected == OverlayNeverHoldsAdminOnlyKeys /\ AdminOnlyValuesAreTheBaseValues


----------------------------------------------------------------------------
\* a terminal.spawn step: who may spawn, and what a refused and a failed
\* spawn leave behind
SpawnStep ==
    last'.op = "terminal.spawn" =>
        LET client == conns[last'.conn]
        IN /\ getTenantId(client) = None => (~last'.ok /\ last'.code = UNAUTHORIZED)
           /\ ~last'.ok =>
                 /\ UNCHANGED termVars
                 /\ last'.code = IF getTenantId(client) = None \/ client.connId = None
                                 THEN UNAUTHORIZED ELSE UNAVAILABLE
           /\ last'.ok =>
                 /\ terminalSessions[last'.terminalId] = Nil
                 /\ terminalSessions'[last'.terminalId].tenantId = getTenantId(client)
                 /\ terminalSessions'[last'.terminalId].connId = client.connId
                 /\ \A id \in TerminalIds \ {last'.terminalId} :
                       terminalSessions'[id] = terminalSessions[id]

(* C28: every session of the map has an owning tenant and one owning        *)
(* connection, neither of which changes while the session lives; a          *)
(* terminal.spawn of a caller without tenant is answered UNAUTHORIZED, a    *)
(* spawn whose sandbox fails UNAVAILABLE, and both leave the map as it was  *)
SessionsOwnedFromSpawn ==
    /\ [](\A id \in TerminalIds :
             terminalSessions[id] # Nil =>
                /\ terminalSessions[id].tenantId \notin {None, ""}
                /\ terminalSessions[id].connId \in ConnIds)
    /\ [][\A id \in TerminalIds :
             (terminalSessions[id] # Nil /\ terminalSessions'[id] # Nil) =>
                /\ terminalSessions'[id].tenantId = terminalSessions[id].tenantId
                /\ terminalSessions'[id].connId = terminalSessions[id].connId]_vars
    /\ [][SpawnStep]_vars

\* a spawn has failed while another terminal is open
WitnessC28 ==
    /\ last.op = "terminal.spawn"
    /\ last.code = UNAVAILABLE
    /\ \E id \in TerminalIds : terminalSessions[id] # Nil


----------------------------------------------------------------------------
(* C29: the device.pair.resolved event of a device.pair.approve or          *)
(* device.pair.reject called by a tenant's connection is delivered to no    *)
(* connection authenticated as another tenant                               *)
PairingEventsStayInTenant ==
    ( /\ last.op \in {"device.pair.approve", "device.pair.reject"}
      /\ last.event = "device.pair.resolved"
      /\ getTenantId(conns[last.conn]) # None )
    => \A c \in last.connIds :
          getTenantId(conns[c]) \in {None, getTenantId(conns[last.conn])}


----------------------------------------------------------------------------
(* C30: once a tenant's cron.add has succeeded, the supervisor holds a      *)
(* scheduler for that tenant                                                *)
SchedulerExistsAfterAdd ==
    (last.op = "cron.add" /\ last.ok /\ last.tenantId # None)
    => tenantServices[last.tenantId] # 0


----------------------------------------------------------------------------
(* C31: a tenant that is absent from the registry has no scheduler in the   *)
(* supervisor's map and none of the schedulers built for it is running      *)
NoSchedulerForDeletedTenant ==
    \A t \in Tenants :
        getTenant(registry, t) = Nil =>
            /\ tenantServices[t] = 0
            /\ \A i \in 1..Len(services) : services[i].tenantId = t => ~running(services[i])


----------------------------------------------------------------------------
\* the cron methods and wake
AllCronMethods == CronMethods \cup {"cron.add"}

(* C32: a cron method or wake called by a tenant's connection leaves the    *)
(* global job store and the global scheduler alone and touches nothing but  *)
(* that tenant's store and scheduler; the other tenants' stores and         *)
(* schedulers stay as they were, and wake is refused                        *)
TenantCronCallsStayInTenant ==
    [][(last'.op \in AllCronMethods /\ getTenantId(conns[last'.conn]) # None) =>
          LET tenantId == getTenantId(conns[last'.conn])
          IN /\ \A e \in effects' : e[2] = tenantId
             /\ globalService' = globalService
             /\ \A d \in (Tenants \cup {None}) \ {tenantId} : cronJobs'[d] = cronJobs[d]
             /\ \A t \in Tenants \ {tenantId} :
                   jobStore'[t] = jobStore[t] /\ tenantServices'[t] = tenantServices[t]
             /\ \A i \in 1..Len(services) : services'[i] = services[i]
             /\ \A i \in 1..Len(services') : i > Len(services) => services'[i].tenantId = tenantId
             /\ last'.op = "wake" => ~last'.ok]_vars

\* a tenant's client has removed a job from the tenant's store
WitnessC32 ==
    /\ last.op = "cron.remove"
    /\ last.ok
    /\ getTenantId(conns[last.conn]) # None
    /\ <<"saveCronStore", getTenantId(conns[last.conn])>> \in effects
    /\ cronJobs[None] # {}


----------------------------------------------------------------------------
(* C36: a job that is in a tenant's store (its cron.add was acknowledged)   *)
(* stays in the store across every step, except the step of a cron.remove   *)
(* of that job: no cron.add, cron.update or cron.remove running beside      *)
(* another drops it                                                         *)
AcknowledgedJobsAreKept ==
    [][\A t \in Tenants : \A j \in cronJobs[t] :
          \/ j \in cronJobs'[t]
          \/ /\ last'.op = "cron.remove"
             /\ last'.ok
             /\ last'.tenantId = t
             /\ last'.jobId = j]_vars


----------------------------------------------------------------------------
(* C40: what a tenant's connection without the admin scope is answered by   *)
(* terminal.write, terminal.resize or terminal.close for a terminal of      *)
(* another tenant is what it is answered for a terminal that does not       *)
(* exist: the refusal of invalid params, or NOT_FOUND                       *)
ForeignTerminalLooksAbsent ==
    [][( /\ last'.op \in {"terminal.write", "terminal.resize", "terminal.close"}
         /\ getTenantId(conns[last'.conn]) # None
         /\ ~hasAdminScope(conns[last'.conn])
         /\ last'.terminalId \in TerminalIds
         /\ terminalSessions[last'.terminalId] # Nil
         /\ terminalSessions[last'.terminalId].tenantId # getTenantId(conns[last'.conn]) )
       => /\ ~last'.ok
          /\ \/ last'.code = INVALID_REQUEST
             \/ last'.code = NOT_FOUND /\ last'.message = "Terminal session not found"]_vars


----------------------------------------------------------------------------
\* the step broadcasts terminal.exit for terminal id
announcesExit(id) ==
    /\ "event" \in DOMAIN last'
    /\ last'.event = "terminal.exit"
    /\ last'.terminalId = id

(* C33: a process that ends while its session is recorded gets its          *)
(* terminal.exit broadcast, to the session's connection, in the step that   *)
(* removes the record; terminal.exit is broadcast for a terminal only by an *)
(* exit or error callback that finds the record and removes it; and a       *)
(* record that is gone never comes back.  So over any sequence of exit and  *)
(* error callbacks, terminal.close, reaping and closeAllTenantTerminals at  *)
(* most one terminal.exit is broadcast per terminal.                        *)
ExitAnnouncedOnce ==
    [][\A id \in TerminalIds :
          /\ (/\ pty[id] # Nil /\ pty[id].state = "running"
              /\ terminalSessions[id] # Nil
              /\ pty'[id].state \in {"exited", "errored"})
             => /\ announcesExit(id)
                /\ last'.connIds = {terminalSessions[id].connId}
                /\ terminalSessions'[id] = Nil
          /\ announcesExit(id)
             => /\ last'.op \in {"pty.exit", "pty.error"}
                /\ terminalSessions[id] # Nil
                /\ terminalSessions'[id] = Nil
          /\ (pty[id] # Nil /\ terminalSessions[id] = Nil)
             => (pty'[id] # Nil /\ terminalSessions'[id] = Nil)
          /\ \A other \in TerminalIds \ {id} :
                announcesExit(id) => terminalSessions'[other] = terminalSessions[other]
      ]_vars

\* the close of a process whose error callback had already announced the exit:
\* the second run of the callback broadcasts nothing
WitnessC33 ==
    \E id \in TerminalIds :
        /\ last.op = "pty.exit" /\ last.terminalId = id
        /\ last.invocation = 2 /\ last.event = None
        /\ pty[id] = Exited /\ terminalSessions[id] = Nil


----------------------------------------------------------------------------
\* the step is a successful terminal.write on id or an output event of id
activityOn(id) ==
    \/ /\ last'.op = "terminal.write" /\ last'.terminalId = id /\ last'.ok
    \/ /\ last'.op = "pty.data" /\ last'.terminalId = id

(* C34: the reaper removes a session only when more than 5 minutes have     *)
(* passed since its lastActivityAt; every successful write and every output *)
(* event sets lastActivityAt to the time of the step, and nothing moves it  *)
(* back: a session with such activity in the last 5 minutes is not reaped.  *)
ReapedOnlyWhenIdle ==
    [][\A id \in TerminalIds :
          /\ (last'.op = "cleanup" /\ terminalSessions[id] # Nil /\ terminalSessions'[id] = Nil)
             => now - terminalSessions[id].lastActivityAt > 5
          /\ (last'.op = "cleanup" /\ id \in last'.reaped)
             => (terminalSessions[id] # Nil /\ terminalSessions'[id] = Nil)
          /\ activityOn(id)
             => (terminalSessions'[id] # Nil /\ terminalSessions'[id].lastActivityAt = now')
          /\ (terminalSessions[id] # Nil /\ terminalSessions'[id] # Nil)
             => /\ terminalSessions'[id].lastActivityAt >= terminalSessions[id].lastActivityAt
                /\ terminalSessions'[id].lastActivityAt <= now'
      ]_vars

\* the reaper has run and removed an idle session, and kept one that is older
\* than 5 minutes but was active within the last 5
WitnessC34 ==
    /\ last.op = "cleanup" /\ last.reaped # {}
    /\ \E id \in TerminalIds :
          /\ terminalSessions[id] # Nil
          /\ now - terminalSessions[id].createdAt > 5
          /\ terminalSessions[id].lastActivityAt > terminalSessions[id].createdAt
          /\ now - terminalSessions[id].lastActivityAt <= 5


----------------------------------------------------------------------------
(* C35: for a client that has a tenantId, whatever its role and also when   *)
(* its connect record is missing, authorizeGatewayMethod never permits a    *)
(* method outside the tenant allow-list.                                    *)
TenantClientsFailClosed ==
    (/\ last.op = "authorize"
     /\ authIn.client # Nil
     /\ authIn.client.tenantId # None
     /\ authIn.method \notin TENANT_ALLOWED_METHODS)
    => last.result # Allowed


----------------------------------------------------------------------------
\* the contents of the tenant's state directory
stateDirContents(files, tenantId) ==
    { n \in files : isWithin(n.path, resolveTenantStateDir(tenantId)) }

(* C37: a restore that fails leaves the contents of the tenant's state      *)
(* directory as they were before the call.                                  *)
FailedRestoreKeepsStateDir ==
    [][(/\ last'.op = "tenants.restore"
        /\ ~last'.ok
        /\ last'.target # None)
       => stateDirContents(fileSystem', last'.target)
             = stateDirContents(fileSystem, last'.target)]_vars


----------------------------------------------------------------------------
(* C38: toTenantSessionKey({tenantId: X, sessionKey: S}) returns a key that *)
(* carries exactly one tenant prefix, that of X, and applying it again with *)
(* the same X returns the same key, for every S.                            *)
TenantKeyPrefixedOnce ==
    /\ last.op \in {"toTenant", "toTenantAgain"}
       => /\ SubSeq(last.result, 1, 2) = <<"tenant", keyIn.tenantId>>
          /\ ~startsWithTenantPrefix(SubSeq(last.result, 3, Len(last.result)))
    /\ last.op = "toTenantAgain" => last.result = last.first


----------------------------------------------------------------------------
(* C39: a quota is unlimited only when it is absent: checkQuotaBeforeRequest *)
(* allows a request only if, for every limit that is configured, a value of  *)
(* 0 included, the corresponding usage is below the limit.                   *)
ConfiguredLimitsDeny ==
    (last.op = "checkQuotaBeforeRequest" /\ last.result.allowed) =>
        LET q == quotas
        IN /\ q.requestsPerMinute # -1 => last.seen.minute < q.requestsPerMinute
           /\ q.requestsPerHour # -1 => last.seen.hour < q.requestsPerHour
           /\ q.monthlyTokenLimit # -1 => last.usage.totalTokens < q.monthlyTokenLimit
           /\ q.monthlyCostLimitCents # -1 => last.usage.totalCostCents < q.monthlyCostLimitCents
           /\ q.diskSpaceLimitBytes # -1 => last.usage.diskUsageBytes < q.diskSpaceLimitBytes
           /\ q.maxConcurrentSessions # -1 => last.usage.activeSessions < q.maxConcurrentSessions

====
